---------------------------- MODULE Spec2Model ----------------------------
(***************************************************************************)
(* Model of the AI data-center power analyzer backend:                     *)
(*   - GPUWorkloadSimulator (backend/app/services/gpu_simulator.py),       *)
(*   - KEPCOPowerAnalyzer.find_optimal_datacenter_locations                *)
(*     (scripts/data_collection/kepco_power_analyzer.py),                  *)
(*   - KEPCODataService (backend/app/services/kepco_service.py) and the    *)
(*     HTTP handlers that call them.                                       *)
(*                                                                         *)
(* Numbers.  The Python code computes in binary floating point.  The model *)
(* computes the same quantities exactly, as integers in a fixed unit that  *)
(* is named at each definition (e.g. micro-watts, hundredths of a score).  *)
(* round(x, k) is modelled as round-half-to-even of the exact quotient.    *)
(***************************************************************************)
EXTENDS Integers, Sequences, FiniteSets, TLC

VARIABLES
    \* --- GPU simulation (one call of simulate_workload_power / POST /simulate)
    sim_config,      \* the config dict / request body of the call
    sim_local,       \* locals of simulate_workload_power that are not returned
    sim_result,      \* what simulate_workload_power returned or raised
    sim_response,    \* HTTP response of POST /simulate (NoCall for a direct call)
    \* --- regional scoring of one region (analyzer, scores in hundredths)
    sc_row,          \* the region's infrastructure and cost-efficiency score
    sc_out,          \* its overall score and grade, or NoCall before scoring
    sc_raises,       \* how often the input scores were raised since Init
    \* --- one run of the analyzer's find_optimal_datacenter_locations
    an_stats,        \* analysis_results[regional usage ranking]: the input table
    an_data,         \* analysis_results[optimal locations]: the scored table
    \* --- one KEPCODataService instance and its environment
    disk,               \* regional_power_comprehensive_analysis.csv
    comprehensive_data, \* self.comprehensive_data
    cached_data,        \* self.cached_data
    cache_expiry,       \* self.cache_expiry
    now,                \* datetime.now(), in ticks
    ret,                \* what the last call returned or raised
    \* --- threads calling get_regional_power_consumption on that instance
    threads,            \* per thread: position, locals and returned value
    \* --- _load_analysis_results on that instance and the files it reads
    files,              \* the three analysis files in data/processed/kepco
    cost_gap_data,      \* self.cost_gap_data
    monthly_data,       \* self.monthly_data
    loader              \* position of __init__ / _load_analysis_results

sim_vars == <<sim_config, sim_local, sim_result, sim_response>>
sc_vars == <<sc_row, sc_out, sc_raises>>
an_vars == <<an_stats, an_data>>
svc_vars == <<disk, comprehensive_data, cached_data, cache_expiry, now, ret>>
thr_vars == <<threads>>
load_vars == <<files, cost_gap_data, monthly_data, loader>>
vars == <<sim_vars, sc_vars, an_vars, svc_vars, thr_vars, load_vars>>

NoCall == [op |-> "none"]

\* Python's None for an optional number: the number x is <<x>>.
None == <<>>
Some(x) == <<x>>

-----------------------------------------------------------------------------
(* Arithmetic helpers: Python's round() on exact quotients.                *)

Abs(x) == IF x < 0 THEN -x ELSE x

Max2(a, b) == IF a >= b THEN a ELSE b

\* round(n / d) for d > 0, ties to the even neighbour (Python 3 round()).
\* \div is floor division and % is the non-negative remainder.
RoundHalfEven(n, d) ==
    LET q == n \div d
        r == n % d
    IN  IF 2 * r < d THEN q
        ELSE IF 2 * r > d THEN q + 1
        ELSE IF q % 2 = 0 THEN q ELSE q + 1

\* round(x * m / d) without forming x * m (which may exceed 32 bits):
\* x = q*d + r  gives  x*m/d = q*m + r*m/d.   Needs (d-1)*m < 2^31.
RoundMulDiv(x, m, d) ==
    (x \div d) * m + RoundHalfEven((x % d) * m, d)

\* round(x * m / (b * d)) for products x*m beyond 32 bits.  x*m is held as
\* hi*b + lo with 0 <= lo < b; the quotient by b*d is decided from hi and lo.
RoundMulDivWide(x, m, b, d) ==
    LET lowprod == (x % b) * m
        hi == (x \div b) * m + (lowprod \div b)
        lo == lowprod % b
        q  == hi \div d
        r  == hi % d
        above == (2 * r > d) \/ (2 * r = d /\ lo > 0)
        tie   == (2 * r = d) /\ (lo = 0)
    IN  IF above THEN q + 1
        ELSE IF tie THEN (IF q % 2 = 0 THEN q ELSE q + 1)
        ELSE q

-----------------------------------------------------------------------------
(* app/models/gpu_models.py                                                *)

GPUType ==
    {"H200", "H100", "A100", "L40S", "L40", "L4", "V100", "T4", "A30", "RTX_4090"}

WorkloadType ==
    {"llm_training", "llm_inference", "computer_vision", "inference",
     "stable_diffusion", "custom"}

\* A plausible slip: the upper bound le=100 of utilization is missing.
WorkloadConfigValid_no_upper(c) ==
    /\ c.gpu_type \in GPUType
    /\ c.workload_type \in WorkloadType
    /\ c.utilization >= 0
    /\ c.duration_hours > 0

\* WorkloadConfig: pydantic validation of the request body of POST /simulate.
\* gpu_type and workload_type must be enum members, utilization has ge=0,
\* le=100, duration_hours has gt=0; custom_tdp is Optional[float], unconstrained.
WorkloadConfigValid(c) ==
    /\ c.gpu_type \in GPUType
    /\ c.workload_type \in WorkloadType
    /\ c.utilization >= 0
    /\ c.utilization <= 100
    /\ c.duration_hours > 0

\* SimulationResult: pydantic validation of the response model
\* (efficiency_score has ge=0, le=100; the score is in tenths here).
SimulationResultValid(r) ==
    /\ r.gpu_type \in GPUType
    /\ r.workload_type \in WorkloadType
    /\ r.efficiency_score >= 0
    /\ r.efficiency_score <= 1000

-----------------------------------------------------------------------------
(* GPUWorkloadSimulator: static tables                                     *)

\* gpu_specifications[g].tdp_watts
tdp_watts(g) ==
    CASE g = "H200" -> 700
      [] g = "H100" -> 700
      [] g = "A100" -> 400
      [] g = "L40S" -> 350
      [] g = "L40" -> 300
      [] g = "L4" -> 72
      [] g = "V100" -> 300
      [] g = "T4" -> 70
      [] g = "A30" -> 165
      [] g = "RTX_4090" -> 450

\* gpu_specifications[g].architecture
architecture(g) ==
    CASE g \in {"H200", "H100"} -> "Hopper"
      [] g \in {"A100", "A30"} -> "Ampere"
      [] g \in {"L40S", "L40", "L4", "RTX_4090"} -> "Ada Lovelace"
      [] g = "V100" -> "Volta"
      [] g = "T4" -> "Turing"

\* A plausible slip: the last entry of the specification table is missing.
gpu_specifications_without_rtx ==
    {"H200", "H100", "A100", "L40S", "L40", "L4", "V100", "T4", "A30"}

\* The keys of the dict returned by _load_gpu_specifications.
gpu_specifications ==
    {"H200", "H100", "A100", "L40S", "L40", "L4", "V100", "T4", "A30", "RTX_4090"}

\* workload_efficiency.get(workload_type, 0.70), in hundredths.
workload_efficiency(w) ==
    CASE w = "llm_training" -> 95
      [] w = "llm_inference" -> 60
      [] w = "computer_vision" -> 85
      [] w = "inference" -> 60
      [] w = "stable_diffusion" -> 75
      [] w = "custom" -> 70
      [] OTHER -> 70

\* arch_bonus.get(architecture, 0.0), in hundredths.
arch_bonus(a) ==
    CASE a = "Hopper" -> 5
      [] a = "Ada Lovelace" -> 3
      [] a = "Ampere" -> 2
      [] a = "Volta" -> 0
      [] OTHER -> 0


\* A plausible slip: the band edges 50 and 95 fall into the outer bands.
utilization_factor_edges_outside(u) ==
    IF u <= 50 THEN 85
    ELSE IF u >= 95 THEN 90
    ELSE 100

\* utilization_factor, in hundredths.
utilization_factor(u) ==
    IF u < 50 THEN 85
    ELSE IF u > 95 THEN 90
    ELSE 100

\* _calculate_power_efficiency, in ten-thousandths (hundredths x hundredths).
calculate_power_efficiency(g, w, u) ==
    (workload_efficiency(w) + arch_bonus(architecture(g))) * utilization_factor(u)

\* workload_scores.get(gpu_type, {}).get(workload_type, 70)
workload_scores(g, w) ==
    CASE g = "H100" ->
           (CASE w = "llm_training" -> 95
              [] w = "llm_inference" -> 90
              [] w = "computer_vision" -> 85
              [] w = "inference" -> 90
              [] w = "stable_diffusion" -> 80
              [] OTHER -> 70)
      [] g = "A100" ->
           (CASE w = "llm_training" -> 85
              [] w = "llm_inference" -> 85
              [] w = "computer_vision" -> 90
              [] w = "inference" -> 85
              [] w = "stable_diffusion" -> 75
              [] OTHER -> 70)
      [] g = "L4" ->
           (CASE w = "llm_training" -> 60
              [] w = "llm_inference" -> 95
              [] w = "computer_vision" -> 80
              [] w = "inference" -> 95
              [] w = "stable_diffusion" -> 85
              [] OTHER -> 70)
      [] OTHER -> 70

\* A plausible slip: the distance from the optimum is added, not subtracted.
utilization_score_added(u) == Max2(10000 + Abs(85 - u) * 50, 5000)

\* utilization_score = max(100 - abs(85 - utilization) * 0.5, 50), in hundredths.
utilization_score(u) == Max2(10000 - Abs(85 - u) * 50, 5000)


\* A plausible slip: only the utilization score is halved
\* (base_score + utilization_score / 2).
calculate_efficiency_score_half_second(g, w, u) ==
    workload_scores(g, w) * 100 + utilization_score(u) \div 2

\* _calculate_efficiency_score, in hundredths of a point (always a multiple
\* of 25, so the division by 2 is exact).
calculate_efficiency_score(g, w, u) ==
    (workload_scores(g, w) * 100 + utilization_score(u)) \div 2

\* base_tdp = config.get('custom_tdp') or gpu_spec.tdp_watts
\* (None and 0 are both falsy, so a zero override selects the specification TDP).
base_tdp(c) ==
    IF c.custom_tdp = None \/ c.custom_tdp = Some(0)
    THEN tdp_watts(c.gpu_type)
    ELSE c.custom_tdp[1]

\* actual_power_watts = base_tdp * power_efficiency * (utilization / 100),
\* in micro-watts: watts x 1e-4 x 1e-2.
actual_power_watts(c) ==
    base_tdp(c) * calculate_power_efficiency(c.gpu_type, c.workload_type, c.utilization)
                * c.utilization

\* _estimate_temperature(actual_power, tdp) = 35.0 + actual_power / tdp * 45,
\* rounded to one decimal by the caller; in tenths of a degree.
\* 450 * p / (tdp * 1e6) = 9 * p / (tdp * 20000).
estimate_temperature(p, tdp) == 350 + RoundMulDiv(p, 9, tdp * 20000)


\* self.power_cost_per_kwh = 0.12 USD per kWh, in cents.
power_cost_per_kwh == 12

\* self.carbon_factor = 0.4571 kg CO2 per kWh, in ten-thousandths.
carbon_factor == 4571

\* The locals of simulate_workload_power that the result is computed from.
\*   base_tdp in watts, power_efficiency in 1e-4, actual_power_watts in
\*   micro-watts, total_energy in micro-watt-hours, efficiency_score in
\*   hundredths of a point.
SimLocals(c) ==
    [op |-> "locals",
     base_tdp |-> base_tdp(c),
     power_efficiency |->
         calculate_power_efficiency(c.gpu_type, c.workload_type, c.utilization),
     actual_power_watts |-> actual_power_watts(c),
     total_energy |-> actual_power_watts(c) * c.duration_hours,
     efficiency_score |->
         calculate_efficiency_score(c.gpu_type, c.workload_type, c.utilization)]


\* A plausible slip: the rounded hourly power and the rounded energy are
\* what the later fields are computed from.
SimulationDict_rounded_early(c) ==
    LET p == actual_power_watts(c)
        hourly == RoundHalfEven(p, 1000000)
        energy == hourly * c.duration_hours
    IN  [op |-> "return",
         gpu_type |-> c.gpu_type,
         workload_type |-> c.workload_type,
         hourly_power_kw |-> hourly,
         total_energy_kwh |-> energy,
         cost_estimate_usd |-> RoundHalfEven(energy * power_cost_per_kwh, 1000),
         efficiency_score |->
             RoundHalfEven(
                 calculate_efficiency_score(c.gpu_type, c.workload_type, c.utilization),
                 10),
         carbon_footprint_kg |-> RoundHalfEven(energy * carbon_factor, 100000),
         utilization_actual |-> c.utilization * 10,
         temperature_estimate_c |-> estimate_temperature(p, tdp_watts(c.gpu_type))]

\* The dict returned by simulate_workload_power.  Units of the rounded fields:
\*   hourly_power_kw, total_energy_kwh  thousandths (round(., 3))
\*   cost_estimate_usd, carbon_footprint_kg  hundredths (round(., 2))
\*   efficiency_score, utilization_actual, temperature_estimate_c  tenths
\* The temperature is estimated against gpu_spec.tdp_watts, not base_tdp.
SimulationDict(c) ==
    LET p == actual_power_watts(c)
        e == p * c.duration_hours
    IN  [op |-> "return",
         gpu_type |-> c.gpu_type,
         workload_type |-> c.workload_type,
         hourly_power_kw |-> RoundHalfEven(p, 1000000),
         total_energy_kwh |-> RoundHalfEven(e, 1000000),
         cost_estimate_usd |-> RoundMulDivWide(e, power_cost_per_kwh, 100000, 10000),
         efficiency_score |->
             RoundHalfEven(
                 calculate_efficiency_score(c.gpu_type, c.workload_type, c.utilization),
                 10),
         carbon_footprint_kg |-> RoundMulDivWide(e, carbon_factor, 100000, 1000000),
         utilization_actual |-> c.utilization * 10,
         temperature_estimate_c |-> estimate_temperature(p, tdp_watts(c.gpu_type))]

Raised(e) == [op |-> "raise", error |-> e]

\* simulate_workload_power(config): GPUType(...) and WorkloadType(...) raise
\* ValueError on an identifier that is no member; the specification lookup
\* raises KeyError on a member without an entry.  Nothing else is checked.
simulate_workload_power(c) ==
    IF c.gpu_type \notin GPUType \/ c.workload_type \notin WorkloadType
    THEN Raised("ValueError")
    ELSE IF c.gpu_type \notin gpu_specifications
    THEN Raised("KeyError")
    ELSE SimulationDict(c)

\* POST /simulate (simulate_gpu_workload): FastAPI validates the body against
\* WorkloadConfig before the handler runs (422 on failure); the handler wraps
\* every exception, including a SimulationResult validation error, in a 500.
simulate_gpu_workload(body) ==
    IF ~WorkloadConfigValid(body)
    THEN [op |-> "response", status |-> 422, body |-> NoCall]
    ELSE LET r == simulate_workload_power(body)
         IN  IF r.op = "raise" \/ ~SimulationResultValid(r)
             THEN [op |-> "response", status |-> 500, body |-> NoCall]
             ELSE [op |-> "response", status |-> 200, body |-> r]

-----------------------------------------------------------------------------
(* Inputs of the GPU simulation                                            *)

\* Identifiers a caller may pass: the enum members and one that is none.
\* "ai_training" is what integrated_analysis.py passes as workload type.
GpuIds == GPUType \cup {"B200"}
WorkloadIds == WorkloadType \cup {"ai_training"}

\* Utilization in percent: both band edges (50, 95), the optimum (85), the
\* range ends and values outside [0, 100].
Utilizations == {-5, 0, 25, 49, 50, 80, 85, 95, 96, 100, 120}

\* duration_hours, including non-positive ones.
Durations == {-1, 0, 1, 2}

\* custom_tdp in watts: absent, zero, negative, below and above the
\* specification values.
CustomTdps == {None, Some(0), Some(-100), Some(250), Some(800)}

Configs ==
    [gpu_type : GpuIds, workload_type : WorkloadIds, utilization : Utilizations,
     duration_hours : Durations, custom_tdp : CustomTdps]

-----------------------------------------------------------------------------
(* Actions of the GPU simulation.  The simulator is stateless: a call is   *)
(* a function of its config.  The config of the call is drawn in Init and  *)
(* one of the two entry points is then applied to it.                      *)

SimPending == sim_result = NoCall /\ sim_response = NoCall

\* A direct call simulator.simulate_workload_power(config).
SimulateWorkloadPower ==
    /\ SimPending
    /\ LET c == sim_config
           r == simulate_workload_power(c)
       IN  /\ sim_result' = r
           /\ sim_local' = IF r.op = "return" THEN SimLocals(c) ELSE NoCall
           /\ sim_response' = [op |-> "direct"]
    /\ UNCHANGED <<sim_config, sc_vars, an_vars, svc_vars, thr_vars, load_vars>>

\* One request POST /simulate with body sim_config.  The handler, and with it
\* simulate_workload_power, runs only if the body passes WorkloadConfig.
SimulateGpuWorkload ==
    /\ SimPending
    /\ LET c == sim_config
           called == WorkloadConfigValid(c)
           r == simulate_workload_power(c)
       IN  /\ sim_result' = IF called THEN r ELSE [op |-> "not called"]
           /\ sim_local' = IF called /\ r.op = "return" THEN SimLocals(c) ELSE NoCall
           /\ sim_response' = simulate_gpu_workload(c)
    /\ UNCHANGED <<sim_config, sc_vars, an_vars, svc_vars, thr_vars, load_vars>>

SimIdle ==
    /\ sim_config = NoCall
    /\ sim_local = NoCall
    /\ sim_result = NoCall
    /\ sim_response = NoCall

-----------------------------------------------------------------------------
(* Claims about the GPU simulation (checked under SpecSim)                 *)

\* The claimed ranges of a workload descriptor.
UtilizationInRange(c) == c.utilization >= 0 /\ c.utilization <= 100
DurationInRange(c) == c.duration_hours > 0

\* The resolved TDP as C1 words it: the override when one is given, else the
\* TDP of the GPU specification.
ResolvedTdp(c) ==
    IF c.custom_tdp = None THEN tdp_watts(c.gpu_type) ELSE c.custom_tdp[1]

\* C1: for every GPU, workload, utilization in [0,100], duration > 0 and TDP
\* override or none, the actual power (micro-watts here) of a returned
\* simulation never exceeds the resolved TDP.
C1_ActualPowerWithinResolvedTdp ==
    (sim_local.op = "locals" /\ UtilizationInRange(sim_config)
                             /\ DurationInRange(sim_config))
        => sim_local.actual_power_watts <= ResolvedTdp(sim_config) * 1000000

\* C2: the efficiency score returned by simulate_workload_power (tenths of a
\* point here) lies in [0, 100] for every pair of the enums and every
\* utilization in [0, 100], also for pairs without a suitability entry.
C2_EfficiencyScoreInRange ==
    (sim_result.op = "return" /\ UtilizationInRange(sim_config))
        => /\ sim_result.efficiency_score >= 0
           /\ sim_result.efficiency_score <= 1000

\* C2 witness: a returned result for a pair without a suitability entry at
\* the utilization farthest from the optimum.
C2_Witness ==
    /\ sim_result.op = "return"
    /\ sim_config.gpu_type = "T4"
    /\ sim_config.workload_type = "custom"
    /\ sim_config.utilization = 0
    /\ sim_result.efficiency_score = 638

\* C3: a direct call of simulate_workload_power returns a result if and only
\* if both identifiers are enum members, and raises otherwise.
C3_ReturnsIffRecognized ==
    sim_response.op = "direct"
        => /\ sim_result.op \in {"return", "raise"}
           /\ (sim_result.op = "return")
                <=> (sim_config.gpu_type \in GPUType
                     /\ sim_config.workload_type \in WorkloadType)

\* C3 witness: the last GPU of the enum with a known workload returned a
\* result from a direct call.
C3_Witness ==
    /\ sim_response.op = "direct"
    /\ sim_config.gpu_type = "RTX_4090"
    /\ sim_config.workload_type = "custom"
    /\ sim_result.op = "return"

\* C4 as claimed: simulate_workload_power never returns a result computed
\* from a utilization outside [0,100] or a duration that is not > 0.
C4_NoResultFromOutOfRange ==
    sim_result.op = "return"
        => (UtilizationInRange(sim_config) /\ DurationInRange(sim_config))

\* C4 amended: a POST /simulate request with a utilization outside [0,100]
\* or a duration that is not > 0 is rejected with 422 by the WorkloadConfig
\* validation, and simulate_workload_power is not called for it.
C4_RequestOutOfRangeRejected ==
    (sim_response.op = "response"
     /\ ~(UtilizationInRange(sim_config) /\ DurationInRange(sim_config)))
        => /\ sim_response.status = 422
           /\ sim_result.op = "not called"

\* C4 witness: a request with known identifiers and utilization 120 was
\* answered 422.
C4_Witness ==
    /\ sim_response.op = "response"
    /\ sim_config.gpu_type \in GPUType
    /\ sim_config.workload_type \in WorkloadType
    /\ sim_config.utilization = 120
    /\ sim_config.duration_hours = 1
    /\ sim_response.status = 422

-----------------------------------------------------------------------------
(* KEPCOPowerAnalyzer.find_optimal_datacenter_locations: scores             *)
(* Scores are in hundredths of a point: the code rounds each to 2 decimals. *)

\* A plausible slip: the cost-efficiency score is subtracted.
overall_score_cost_subtracted(infra, cost) == RoundHalfEven(infra * 4 - cost * 6, 10)

\* data['overall'] = (data['infra'] * 0.4 + data['cost'] * 0.6).round(2)
overall_score(infra, cost) == RoundHalfEven(infra * 4 + cost * 6, 10)

\* A plausible slip: the A threshold compares with > instead of >=.
get_datacenter_grade_strict_a(score) ==
    IF score >= 8000 THEN "S"
    ELSE IF score > 7000 THEN "A"
    ELSE IF score >= 6000 THEN "B"
    ELSE IF score >= 5000 THEN "C"
    ELSE "D"

\* get_datacenter_grade(score).  The labels are the first letter of the
\* returned strings ("S-class (optimal)", "A-class (excellent)", ...).
get_datacenter_grade(score) ==
    IF score >= 8000 THEN "S"
    ELSE IF score >= 7000 THEN "A"
    ELSE IF score >= 6000 THEN "B"
    ELSE IF score >= 5000 THEN "C"
    ELSE "D"

\* What the analyzer derives for one region from its two scores.
ScoreOut(row) ==
    LET o == overall_score(row.infra, row.cost)
    IN  [op |-> "scored", overall |-> o, grade |-> get_datacenter_grade(o)]

-----------------------------------------------------------------------------
(* Scoring one region: inputs and actions (SpecScore)                      *)

\* A score is a number in [0, 100] with two decimals.
FullScore == 10000

\* The scored inputs: equal scores (the overall score is then that score, so
\* every overall score occurs) and a coarse grid of unequal ones.
ScoreGridStep == 1250

ScoreRows ==
    {[infra |-> x, cost |-> x] : x \in 0..FullScore}
    \cup {[infra |-> i * ScoreGridStep, cost |-> c * ScoreGridStep] :
            i \in 0..(FullScore \div ScoreGridStep),
            c \in 0..(FullScore \div ScoreGridStep)}

\* By how much a later run of the analyzer may find a score raised.
RaiseSteps == {1, 17}

\* How many times the scores are raised after Init.
MaxRaises == 1

\* The analyzer scores the region.
ScoreRegion ==
    /\ sc_out = NoCall
    /\ sc_out' = ScoreOut(sc_row)
    /\ UNCHANGED <<sc_row, sc_raises, sim_vars, an_vars, svc_vars, thr_vars, load_vars>>

\* The data changes so that the infrastructure score is higher, the cost
\* score the same, and the analyzer scores the region again.
RaiseInfrastructure ==
    /\ sc_out # NoCall
    /\ sc_raises < MaxRaises
    /\ \E d \in RaiseSteps :
        /\ sc_row.infra + d <= FullScore
        /\ sc_row' = [sc_row EXCEPT !.infra = @ + d]
    /\ sc_out' = ScoreOut(sc_row')
    /\ sc_raises' = sc_raises + 1
    /\ UNCHANGED <<sim_vars, an_vars, svc_vars, thr_vars, load_vars>>

\* The same for the cost-efficiency score.
RaiseCostEfficiency ==
    /\ sc_out # NoCall
    /\ sc_raises < MaxRaises
    /\ \E d \in RaiseSteps :
        /\ sc_row.cost + d <= FullScore
        /\ sc_row' = [sc_row EXCEPT !.cost = @ + d]
    /\ sc_out' = ScoreOut(sc_row')
    /\ sc_raises' = sc_raises + 1
    /\ UNCHANGED <<sim_vars, an_vars, svc_vars, thr_vars, load_vars>>

ScoreIdle ==
    /\ sc_row = NoCall
    /\ sc_out = NoCall
    /\ sc_raises = 0

-----------------------------------------------------------------------------
(* KEPCOPowerAnalyzer.find_optimal_datacenter_locations: the table          *)

\* Largest element of a non-empty set of numbers (Series.max()).
SetMax(S) == CHOOSE x \in S : \A y \in S : y <= x


\* A plausible slip: the price gap is divided by the region's own price.
ScoredRow_own_price(data, k) ==
    LET max_usage == SetMax({data[j].usage : j \in 1..Len(data)})
        max_cost == SetMax({data[j].price : j \in 1..Len(data)})
        infra == RoundHalfEven(data[k].usage * FullScore, max_usage)
        cost == RoundHalfEven((max_cost - data[k].price) * FullScore, data[k].price)
    IN  [region |-> data[k].region,
         usage |-> data[k].usage,
         price |-> data[k].price,
         usage_rank |-> data[k].usage_rank,
         infra |-> infra,
         cost |-> cost,
         overall |-> overall_score(infra, cost)]

\* The three score columns of one row of the input table `data`.
\* infra = (usage / usage.max() * 100).round(2)
\* cost  = ((max_cost - price) / max_cost * 100).round(2)
ScoredRow(data, k) ==
    LET max_usage == SetMax({data[j].usage : j \in 1..Len(data)})
        max_cost == SetMax({data[j].price : j \in 1..Len(data)})
        infra == RoundHalfEven(data[k].usage * FullScore, max_usage)
        cost == RoundHalfEven((max_cost - data[k].price) * FullScore, max_cost)
    IN  [region |-> data[k].region,
         usage |-> data[k].usage,
         price |-> data[k].price,
         usage_rank |-> data[k].usage_rank,
         infra |-> infra,
         cost |-> cost,
         overall |-> overall_score(infra, cost)]

\* A plausible slip: the table is sorted ascending.
SortOrders_ascending(scored) ==
    {p \in Permutations(1..Len(scored)) :
        \A i, j \in 1..Len(scored) :
            i < j => scored[p[i]].overall <= scored[p[j]].overall}

\* data.sort_values(overall, ascending=False): the row orders the sort may
\* produce.  sort_values uses kind='quicksort', which is not a stable sort,
\* so rows with equal scores may come out in any order.
SortOrders(scored) ==
    {p \in Permutations(1..Len(scored)) :
        \A i, j \in 1..Len(scored) :
            i < j => scored[p[i]].overall >= scored[p[j]].overall}

\* The table returned for the input `data` when the sort produced order p:
\* rank = range(1, len(data) + 1) on the sorted rows, grade by score.
RankedTable(data, p) ==
    [k \in 1..Len(data) |->
        LET row == ScoredRow(data, p[k])
        IN  [region |-> row.region,
             usage |-> row.usage,
             price |-> row.price,
             usage_rank |-> row.usage_rank,
             infra |-> row.infra,
             cost |-> row.cost,
             overall |-> row.overall,
             rank |-> k,
             grade |-> get_datacenter_grade(row.overall)]]

\* Every table find_optimal_datacenter_locations may return for `data`.
OptimalLocations(data) ==
    {RankedTable(data, p) :
        p \in SortOrders([k \in 1..Len(data) |-> ScoredRow(data, k)])}

-----------------------------------------------------------------------------
(* The analyzer's input: the regional usage ranking                        *)

\* Number of regions, largest usage and largest price of the input tables.
MaxRegions == 3
MaxUsage == 3
MaxPrice == 3

\* Region names (column 1 of the raw data).  "Unclassified" stands for the
\* unclassified region that the service leaves out of its snapshot.
RegionPool == <<"Gyeonggi", "Seoul", "Unclassified", "Busan", "Incheon", "Sejong">>

\* analyze_regional_power_usage leaves the regions sorted by descending
\* usage, numbered by usage rank, with usage > 0.  Prices are positive.
StatsTablesOf(max_regions, max_usage, max_price) ==
    UNION {
        {[k \in 1..n |-> [region |-> RegionPool[k], usage |-> u[k],
                          price |-> c[k], usage_rank |-> k]] :
            u \in {f \in [1..n -> 1..max_usage] :
                      \A i \in 1..n : i < n => f[i] >= f[i + 1]},
            c \in [1..n -> 1..max_price]} :
        n \in 0..max_regions}

StatsTables == StatsTablesOf(MaxRegions, MaxUsage, MaxPrice)

\* One run of find_optimal_datacenter_locations on the input table.
FindOptimalDatacenterLocations ==
    /\ an_data = NoCall
    /\ \E t \in OptimalLocations(an_stats) :
           an_data' = [op |-> "scored", rows |-> t]
    /\ UNCHANGED <<an_stats, sim_vars, sc_vars, svc_vars, thr_vars, load_vars>>

AnalyzerIdle ==
    /\ an_stats = <<>>
    /\ an_data = NoCall

-----------------------------------------------------------------------------
(* KEPCODataService: the analysis file and the values it is turned into    *)

\* Usage and price of the analysis files the service is run on.
SvcMaxUsage == 1
SvcMaxPrice == 2

\* The file regional_power_comprehensive_analysis.csv.  save_analysis_results
\* writes the table of find_optimal_datacenter_locations, so its rows are one
\* of the analyzer's outputs; `scored` is FALSE for a file that lacks the
\* score columns, a missing file has no rows, and `readable` is FALSE when
\* reading the analysis files raises (and the analysis run that __init__
\* then starts does not repair them).
AnalysisFiles ==
    {[rows |-> t, scored |-> TRUE, readable |-> TRUE] :
        t \in UNION {OptimalLocations(d) :
                       d \in StatsTablesOf(MaxRegions, SvcMaxUsage, SvcMaxPrice)}}
    \cup
    {[rows |-> d, scored |-> FALSE, readable |-> TRUE] :
        d \in StatsTablesOf(MaxRegions, 1, 1) \ {<<>>}}
    \cup
    {[rows |-> t, scored |-> TRUE, readable |-> FALSE] :
        t \in UNION {OptimalLocations(d) :
                       d \in StatsTablesOf(1, 1, 1) \ {<<>>}}}

\* pd.DataFrame()
EmptyTable == [rows |-> <<>>, scored |-> TRUE]

\* _load_analysis_results: the DataFrame read from the file, or an empty
\* one when reading raises.
load_analysis_results(file) ==
    IF file.readable
    THEN [rows |-> file.rows, scored |-> file.scored]
    ELSE EmptyTable

\* comprehensive_data.empty
Empty(data) == Len(data.rows) = 0

\* Hours of a year.  Usage is counted in units of 8.76e9 kWh, so that
\* kWh / 1000 / 8760 is 1000 MW for each unit of usage.
HoursPerYear == 8760

\* "stable" if score > 50 else "moderate"
grid_stability(overall) == IF overall > 5000 THEN "stable" ELSE "moderate"

\* seq[:n] of Python: the first n elements, or all but the last -n.
Slice(seq, n) ==
    IF n >= 0
    THEN SubSeq(seq, 1, IF n < Len(seq) THEN n ELSE Len(seq))
    ELSE SubSeq(seq, 1, Max2(Len(seq) + n, 0))

\* The rows that get_regional_power_consumption does not skip.  (The files
\* written by the analyzer hold no NaN usage or price.)
SnapshotRows(data) ==
    {k \in 1..Len(data.rows) : data.rows[k].region # "Unclassified"}

\* The entry of one row in the snapshot's regions (money columns that are
\* only copied are left out; consumption in GWh per unit of usage).
RegionEntry(row) ==
    [region_name |-> row.region,
     current_consumption_mwh |-> row.usage * HoursPerYear,
     average_price_krw_kwh |-> row.price,
     ranking |-> row.usage_rank,
     infrastructure_score |-> row.infra,
     cost_efficiency_score |-> row.cost,
     overall_efficiency_score |-> row.overall,
     datacenter_grade |-> row.grade,
     supply_capacity_mwh |-> RoundMulDiv(row.usage * HoursPerYear, 12, 10),
     grid_stability |-> grid_stability(row.overall)]

\* The snapshot built from the loaded table at time t.
RealRegionalData(data, year, t) ==
    LET names == {data.rows[k].region : k \in SnapshotRows(data)}
    IN  [status |-> "success",
         year |-> year,
         total_regions |-> Cardinality(names),
         data_source |-> "KEPCO_real_analysis",
         last_updated |-> t,
         regions |-> [r \in names |->
             RegionEntry(data.rows[CHOOSE k \in SnapshotRows(data) :
                                       data.rows[k].region = r])]]

\* _get_simulated_regional_data: two fixed regions, total_regions 17.
get_simulated_regional_data(year, t) ==
    [status |-> "success",
     year |-> year,
     total_regions |-> 17,
     data_source |-> "simulation",
     last_updated |-> t,
     regions |-> [r \in {"Seoul", "Gyeonggi"} |->
         [region_name |-> r,
          current_consumption_mwh |-> IF r = "Seoul" THEN 180000 ELSE 362000,
          average_price_krw_kwh |-> IF r = "Seoul" THEN 14824 ELSE 14958,
          supply_capacity_mwh |-> IF r = "Seoul" THEN 216000 ELSE 434000,
          grid_stability |-> "stable"]]]

\* A plausible slip: the simulated list is returned whole, without [:top_n].
get_simulated_optimal_locations_unsliced(required_power_mw, top_n) ==
    <<[region |-> "Sejong",
       overall_efficiency_score |-> 7550,
       infrastructure_score |-> 6500,
       cost_efficiency_score |-> 8500,
       datacenter_grade |-> "A",
       power_cost_krw_kwh |-> 14267,
       remaining_capacity_mw |-> 1500,
       recommended |-> TRUE],
      [region |-> "Daejeon",
       overall_efficiency_score |-> 7230,
       infrastructure_score |-> 7000,
       cost_efficiency_score |-> 7800,
       datacenter_grade |-> "A",
       power_cost_krw_kwh |-> 14646,
       remaining_capacity_mw |-> 1200,
       recommended |-> TRUE]>>

\* _get_simulated_optimal_locations: two fixed candidates, cut to top_n.
get_simulated_optimal_locations(required_power_mw, top_n) ==
    Slice(<<[region |-> "Sejong",
             overall_efficiency_score |-> 7550,
             infrastructure_score |-> 6500,
             cost_efficiency_score |-> 8500,
             datacenter_grade |-> "A",
             power_cost_krw_kwh |-> 14267,
             remaining_capacity_mw |-> 1500,
             recommended |-> TRUE],
            [region |-> "Daejeon",
             overall_efficiency_score |-> 7230,
             infrastructure_score |-> 7000,
             cost_efficiency_score |-> 7800,
             datacenter_grade |-> "A",
             power_cost_krw_kwh |-> 14646,
             remaining_capacity_mw |-> 1200,
             recommended |-> TRUE]>>, top_n)

\* A plausible slip: the usage rank is taken for the ranking, as the snapshot
\* does.
Candidate_usage_rank(row, required_power_mw) ==
    LET current_mw == row.usage * 1000
        supply_capacity == RoundMulDiv(current_mw, 12, 10)
        remaining_capacity == supply_capacity - current_mw
    IN  [region |-> row.region,
         overall_efficiency_score |-> row.overall,
         infrastructure_score |-> row.infra,
         cost_efficiency_score |-> row.cost,
         datacenter_grade |-> row.grade,
         power_cost_krw_kwh |-> row.price,
         current_consumption_mw |-> current_mw * 10,
         supply_capacity_mw |-> supply_capacity * 10,
         remaining_capacity_mw |-> remaining_capacity * 10,
         load_increase_percent |->
             IF current_mw > 0
             THEN RoundHalfEven(required_power_mw * 10000, current_mw)
             ELSE 0,
         capacity_adequate |-> remaining_capacity > required_power_mw,
         grid_stability |-> grid_stability(row.overall),
         recommended |-> row.overall >= 7000,
         annual_power_cost_krw |-> required_power_mw * HoursPerYear * row.price,
         ranking |-> row.usage_rank]

\* The candidate built from one row of the loaded table (MW in tenths,
\* percent in hundredths).
Candidate(row, required_power_mw) ==
    LET current_mw == row.usage * 1000
        supply_capacity == RoundMulDiv(current_mw, 12, 10)
        remaining_capacity == supply_capacity - current_mw
    IN  [region |-> row.region,
         overall_efficiency_score |-> row.overall,
         infrastructure_score |-> row.infra,
         cost_efficiency_score |-> row.cost,
         datacenter_grade |-> row.grade,
         power_cost_krw_kwh |-> row.price,
         current_consumption_mw |-> current_mw * 10,
         supply_capacity_mw |-> supply_capacity * 10,
         remaining_capacity_mw |-> remaining_capacity * 10,
         load_increase_percent |->
             IF current_mw > 0
             THEN RoundHalfEven(required_power_mw * 10000, current_mw)
             ELSE 0,
         capacity_adequate |-> remaining_capacity > required_power_mw,
         grid_stability |-> grid_stability(row.overall),
         recommended |-> row.overall >= 7000,
         annual_power_cost_krw |-> required_power_mw * HoursPerYear * row.price,
         ranking |-> row.rank]

\* A plausible slip: the candidates are sorted ascending.
SortCandidates_ascending(cands) ==
    LET n == Len(cands)
        pos(k) == Cardinality({j \in 1..n :
                      \/ cands[j].overall_efficiency_score
                             < cands[k].overall_efficiency_score
                      \/ /\ cands[j].overall_efficiency_score
                             = cands[k].overall_efficiency_score
                         /\ j < k}) + 1
    IN  [i \in 1..n |-> cands[CHOOSE k \in 1..n : pos(k) = i]]

\* candidates.sort(key=overall_efficiency_score, reverse=True): list.sort is
\* stable, so candidates of equal score keep the order of the table.
SortCandidates(cands) ==
    LET n == Len(cands)
        pos(k) == Cardinality({j \in 1..n :
                      \/ cands[j].overall_efficiency_score
                             > cands[k].overall_efficiency_score
                      \/ /\ cands[j].overall_efficiency_score
                             = cands[k].overall_efficiency_score
                         /\ j < k}) + 1
    IN  [i \in 1..n |-> cands[CHOOSE k \in 1..n : pos(k) = i]]

-----------------------------------------------------------------------------
(* KEPCODataService: the instance and its operations                       *)

\* timedelta(hours=1), and the ticks of the clock in one hour.
CacheHours == 1
TicksPerHour == 1
MaxTime == 1

CacheKeys == {"regional_consumption_2023", "regional_consumption_2024",
              "power_plants"}


\* A plausible slip: one cache key for every year.
RegionalKey_shared(year) == "regional_consumption_2024"

\* f"regional_consumption_{year}"
RegionalKey(year) ==
    IF year = 2023 THEN "regional_consumption_2023"
                   ELSE "regional_consumption_2024"

\* A key that is not in a dict.
Missing == [op |-> "missing"]

\* The fields of the instance, as one value.
Self ==
    [comprehensive_data |-> comprehensive_data,
     cached_data |-> cached_data,
     cache_expiry |-> cache_expiry]

\* __init__: empty cache dicts, then the analysis file is loaded.
NewService(file) ==
    [comprehensive_data |-> load_analysis_results(file),
     cached_data |-> [k \in CacheKeys |-> Missing],
     cache_expiry |-> [k \in CacheKeys |-> None]]


\* A plausible slip: an entry is still served at its expiry time.
is_cache_valid_at_expiry(self, cache_key, t) ==
    /\ self.cached_data[cache_key] # Missing
    /\ self.cache_expiry[cache_key] # None
    /\ t <= self.cache_expiry[cache_key][1]

\* _is_cache_valid at time t
is_cache_valid(self, cache_key, t) ==
    /\ self.cached_data[cache_key] # Missing
    /\ self.cache_expiry[cache_key] # None
    /\ t < self.cache_expiry[cache_key][1]


\* A plausible slip: the value is stored and the expiry is not.
cache_data_value_only(self, cache_key, data, t) ==
    [self EXCEPT !.cached_data[cache_key] = data]

\* _cache_data at time t
cache_data(self, cache_key, data, t) ==
    [self EXCEPT !.cached_data[cache_key] = data,
                 !.cache_expiry[cache_key] = Some(t + CacheHours * TicksPerHour)]


\* The try block of get_regional_power_consumption and its except branch:
\* the `result` that is built at time t when the cache does not answer.
build_regional_result(self, year, t) ==
    LET data == self.comprehensive_data
    IN  IF ~Empty(data)
        THEN IF SnapshotRows(data) # {} /\ ~data.scored
             THEN get_simulated_regional_data(year, t)
             ELSE RealRegionalData(data, year, t)
        ELSE get_simulated_regional_data(year, t)

\* A plausible slip: the table is not tested for being empty, so a snapshot
\* without regions is built from an empty table.
get_regional_power_consumption_no_empty_check(self, year, t) ==
    LET cache_key == RegionalKey(year)
        data == self.comprehensive_data
        result ==
            IF SnapshotRows(data) # {} /\ ~data.scored
            THEN get_simulated_regional_data(year, t)
            ELSE RealRegionalData(data, year, t)
    IN  IF is_cache_valid(self, cache_key, t)
        THEN [value |-> self.cached_data[cache_key], hit |-> TRUE,
              self |-> self]
        ELSE [value |-> result, hit |-> FALSE,
              self |-> cache_data(self, cache_key, result, t)]

\* get_regional_power_consumption(year) at time t: what it returns and the
\* instance it leaves.  Reading a row of a file without score columns raises,
\* and the handler falls back to the simulated data.
get_regional_power_consumption(self, year, t) ==
    LET cache_key == RegionalKey(year)
        result == build_regional_result(self, year, t)
    IN  IF is_cache_valid(self, cache_key, t)
        THEN [value |-> self.cached_data[cache_key], hit |-> TRUE,
              self |-> self]
        ELSE [value |-> result, hit |-> FALSE,
              self |-> cache_data(self, cache_key, result, t)]

\* The simulated plant data (a fixed dict).
PowerPlants ==
    [nuclear_plants |-> <<"Kori", "Hanul">>,
     thermal_plants |-> <<"Taean">>,
     renewable |-> <<"Haenam">>]

\* get_power_plant_data() at time t
get_power_plant_data(self, t) ==
    IF is_cache_valid(self, "power_plants", t)
    THEN [value |-> self.cached_data["power_plants"], hit |-> TRUE,
          self |-> self]
    ELSE [value |-> PowerPlants, hit |-> FALSE,
          self |-> cache_data(self, "power_plants", PowerPlants, t)]

\* analyze_datacenter_impact(location, datacenter_power_mw) at time t.  The
\* membership test and the lookup are made on the snapshot dict itself, whose
\* keys are status, year, total_regions, data_source, last_updated and
\* regions; no value under these keys has "total_consumption_mwh", so the
\* lines that build the report are never reached.
analyze_datacenter_impact(self, location, datacenter_power_mw, t) ==
    LET got == get_regional_power_consumption(self, 2024, t)
        regional_data == got.value
    IN  [outcome |->
             IF location \notin DOMAIN regional_data
             THEN "ValueError"
             ELSE IF location = "regions"
                  THEN "KeyError"
                  ELSE "TypeError",
         self |-> got.self]

\* A plausible slip: the call removes the rows it returned from the table.
find_optimal_datacenter_locations_consuming(self, required_power_mw, top_n) ==
    LET data == self.comprehensive_data
        value == Slice(SortCandidates(
                     [k \in 1..Len(data.rows) |->
                         Candidate(data.rows[k], required_power_mw)]), top_n)
    IN  IF ~Empty(data) /\ data.scored
        THEN [value |-> value, fallback |-> FALSE,
              self |-> [self EXCEPT !.comprehensive_data.rows =
                  SubSeq(data.rows, Len(value) + 1, Len(data.rows))]]
        ELSE [value |-> get_simulated_optimal_locations(required_power_mw,
                                                        top_n),
              fallback |-> TRUE, self |-> self]

\* find_optimal_datacenter_locations(required_power_mw, top_n): what it
\* returns and the instance it leaves.  Reading the score of a row of a file
\* without score columns raises, and the handler returns the simulated list.
find_optimal_datacenter_locations(self, required_power_mw, top_n) ==
    LET data == self.comprehensive_data
    IN  IF ~Empty(data) /\ data.scored
        THEN [value |-> Slice(SortCandidates(
                  [k \in 1..Len(data.rows) |->
                      Candidate(data.rows[k], required_power_mw)]), top_n),
              fallback |-> FALSE, self |-> self]
        ELSE [value |-> get_simulated_optimal_locations(required_power_mw,
                                                        top_n),
              fallback |-> TRUE, self |-> self]

\* POST /datacenter-impact: a new service, one call, ValueError answered
\* with 400 and any other exception with 500.
post_datacenter_impact(file, location, datacenter_power_mw, t) ==
    LET r == analyze_datacenter_impact(NewService(file), location,
                                       datacenter_power_mw, t)
    IN  IF r.outcome = "returned" THEN 200
        ELSE IF r.outcome = "ValueError" THEN 400 ELSE 500

-----------------------------------------------------------------------------
(* KEPCODataService: the calls                                             *)

Years == {2023, 2024}
Locations == {"Gyeonggi", "Unclassified", "regions", "status"}
Loads == {100, 300}
TopNs == {0, 2, 5}

\* The fields of the instance become those of `self`.
Becomes(self) ==
    /\ comprehensive_data' = self.comprehensive_data
    /\ cached_data' = self.cached_data
    /\ cache_expiry' = self.cache_expiry

\* The clock advances.
Tick ==
    /\ now < MaxTime
    /\ now' = now + 1
    /\ UNCHANGED <<disk, comprehensive_data, cached_data, cache_expiry, ret>>
    /\ UNCHANGED <<sim_vars, sc_vars, an_vars, thr_vars, load_vars>>

\* KEPCODataService() is constructed again.
Construct ==
    /\ Becomes(NewService(disk))
    /\ ret' = [op |-> "__init__"]
    /\ UNCHANGED <<disk, now>>
    /\ UNCHANGED <<sim_vars, sc_vars, an_vars, thr_vars, load_vars>>

GetRegionalPowerConsumption ==
    /\ \E year \in Years :
           LET r == get_regional_power_consumption(Self, year, now)
           IN  /\ Becomes(r.self)
               /\ ret' = [op |-> "get_regional_power_consumption",
                          year |-> year, hit |-> r.hit, value |-> r.value]
    /\ UNCHANGED <<disk, now>>
    /\ UNCHANGED <<sim_vars, sc_vars, an_vars, thr_vars, load_vars>>

GetPowerPlantData ==
    /\ LET r == get_power_plant_data(Self, now)
       IN  /\ Becomes(r.self)
           /\ ret' = [op |-> "get_power_plant_data",
                      hit |-> r.hit, value |-> r.value]
    /\ UNCHANGED <<disk, now>>
    /\ UNCHANGED <<sim_vars, sc_vars, an_vars, thr_vars, load_vars>>

AnalyzeDatacenterImpact ==
    /\ \E location \in Locations, datacenter_power_mw \in Loads :
           LET r == analyze_datacenter_impact(Self, location,
                                              datacenter_power_mw, now)
           IN  /\ Becomes(r.self)
               /\ ret' = [op |-> "analyze_datacenter_impact",
                          location |-> location,
                          datacenter_power_mw |-> datacenter_power_mw,
                          outcome |-> r.outcome]
    /\ UNCHANGED <<disk, now>>
    /\ UNCHANGED <<sim_vars, sc_vars, an_vars, thr_vars, load_vars>>

\* `repeat` records that the call before this one was the same call.
FindOptimalLocations ==
    /\ \E required_power_mw \in Loads, top_n \in TopNs :
           LET r == find_optimal_datacenter_locations(Self, required_power_mw,
                                                      top_n)
           IN  /\ Becomes(r.self)
               /\ ret' = [op |-> "find_optimal_datacenter_locations",
                          required_power_mw |-> required_power_mw,
                          top_n |-> top_n,
                          fallback |-> r.fallback,
                          value |-> r.value,
                          repeat |->
                              /\ ret.op = "find_optimal_datacenter_locations"
                              /\ ret.required_power_mw = required_power_mw
                              /\ ret.top_n = top_n]
    /\ UNCHANGED <<disk, now>>
    /\ UNCHANGED <<sim_vars, sc_vars, an_vars, thr_vars, load_vars>>

\* The endpoint works on an instance of its own.
PostDatacenterImpact ==
    /\ \E location \in Locations, datacenter_power_mw \in Loads :
           ret' = [op |-> "POST /datacenter-impact",
                   location |-> location,
                   datacenter_power_mw |-> datacenter_power_mw,
                   status_code |-> post_datacenter_impact(
                       disk, location, datacenter_power_mw, now)]
    /\ UNCHANGED <<disk, comprehensive_data, cached_data, cache_expiry, now>>
    /\ UNCHANGED <<sim_vars, sc_vars, an_vars, thr_vars, load_vars>>


-----------------------------------------------------------------------------
(* KEPCODataService: the cache over a longer time                          *)

\* The clock of the cache runs: long enough for an entry to be read before,
\* at and after its expiry.
CacheMaxTime == 3

\* The analysis files of the cache runs: those of at most one region.
CacheFiles == {f \in AnalysisFiles : Len(f.rows) <= 1}

TickCache ==
    /\ now < CacheMaxTime
    /\ now' = now + 1
    /\ UNCHANGED <<disk, comprehensive_data, cached_data, cache_expiry, ret>>
    /\ UNCHANGED <<sim_vars, sc_vars, an_vars, thr_vars, load_vars>>


\* GET /regions?year=...: a new service, one get_regional_power_consumption
\* call, the snapshot returned as the body (an exception would be answered
\* with 500; the call raises none).
get_regional_power_data(file, year, t) ==
    LET r == get_regional_power_consumption(NewService(file), year, t)
    IN  [status_code |-> 200, hit |-> r.hit, body |-> r.value]

\* The endpoint works on an instance of its own.  `at` is the time of the
\* request and `previous` that of the request before it, when that was a
\* request to the same endpoint for the same year.
GetRegionalPowerData ==
    /\ \E year \in Years :
           LET r == get_regional_power_data(disk, year, now)
           IN  ret' = [op |-> "GET /regions",
                       year |-> year,
                       at |-> now,
                       previous |-> IF ret.op = "GET /regions" /\ ret.year = year
                                    THEN Some(ret.at) ELSE None,
                       status_code |-> r.status_code,
                       hit |-> r.hit,
                       body |-> r.body]
    /\ UNCHANGED <<disk, comprehensive_data, cached_data, cache_expiry, now>>
    /\ UNCHANGED <<sim_vars, sc_vars, an_vars, thr_vars, load_vars>>


-----------------------------------------------------------------------------
(* The endpoints of integrated_analysis.py                                 *)

\* gpu_simulator.simulate_power_consumption(config), as the handlers call
\* it.  gpu_simulator.py defines neither GPUPowerSimulator nor a method
\* simulate_power_consumption (its class is GPUWorkloadSimulator, its method
\* simulate_workload_power), so reaching the call raises whatever the config
\* is.
simulate_power_consumption(config) == Raised("AttributeError")

\* The GPU models and workloads that get_regional_gpu_efficiency simulates.
\* None of the three workloads is a member of WorkloadType.
gpu_models == {"RTX_4090", "H100", "A100"}
workload_types == {"ai_training", "ai_inference", "general_compute"}

\* dict.get(key, default) on an entry of the snapshot's regions.
GetOr(info, key, default) ==
    IF key \in DOMAIN info THEN info[key] ELSE default

\* The entry written when the simulation of a pair raised ("default values
\* when the simulation fails").
DefaultedEntry ==
    [annual_power_kwh |-> 0,
     annual_cost_krw |-> 0,
     efficiency_score |-> 0,
     peak_power_watts |-> 0,
     average_power_watts |-> 0]

\* The entry of one (GPU model, workload) pair for a region: the inner
\* try/except of the handler.
GpuEfficiencyEntry(region_info, gpu_model, workload) ==
    LET simulated == simulate_power_consumption(
            [gpu_type |-> gpu_model, workload_type |-> workload,
             duration_hours |-> HoursPerYear, utilization_rate |-> 80])
    IN  IF simulated.op = "raise"
        THEN DefaultedEntry
        ELSE [annual_power_kwh |-> simulated.total_energy_kwh,
              annual_cost_krw |-> simulated.total_energy_kwh
                  * GetOr(region_info, "average_price_krw_kwh", 160),
              efficiency_score |-> Max2(0, 1000
                  - (simulated.total_energy_kwh
                     * GetOr(region_info, "average_price_krw_kwh", 160))
                    \div 1000000),
              peak_power_watts |-> simulated.peak_power_watts,
              average_power_watts |-> simulated.average_power_watts]

\* GET /regional-gpu-efficiency: a new service, the snapshot, and for every
\* region the nine simulations; the answer is always a success.  (The list
\* regional_analysis is kept as a mapping by region; its order, by overall
\* score, and its cut to ten entries are left out.)
get_regional_gpu_efficiency(file, t) ==
    LET first == get_regional_power_consumption(NewService(file), 2024, t)
        regions == first.value.regions
        second == get_regional_power_consumption(first.self, 2024, t)
    IN  [status_code |-> 200,
         failed_simulations |-> Cardinality(
             {<<r, g, w>> \in (DOMAIN regions) \X gpu_models \X workload_types :
                 simulate_power_consumption(
                     [gpu_type |-> g, workload_type |-> w,
                      duration_hours |-> HoursPerYear,
                      utilization_rate |-> 80]).op = "raise"}),
         body |->
             [status |-> "success",
              total_regions |-> Cardinality(DOMAIN regions),
              analysis_date |-> second.value.last_updated,
              regional_analysis |-> [r \in DOMAIN regions |->
                  [region |-> r,
                   datacenter_grade |-> GetOr(regions[r], "datacenter_grade", "D"),
                   power_cost_krw_kwh |->
                       GetOr(regions[r], "average_price_krw_kwh", 160),
                   infrastructure_score |->
                       GetOr(regions[r], "infrastructure_score", 0),
                   overall_efficiency_score |->
                       GetOr(regions[r], "overall_efficiency_score", 0),
                   gpu_efficiency |-> [k \in gpu_models \X workload_types |->
                       GpuEfficiencyEntry(regions[r], k[1], k[2])]]]]]

\* POST /optimal-datacenter-config: a new service, the snapshot, one
\* simulation of the requested GPU and workload outside any inner try; the
\* handler answers every exception with 500.  (Of the successful answer only
\* the simulation figures are kept.)
get_optimal_datacenter_config(file, request, t) ==
    LET simulated == simulate_power_consumption(
            [gpu_type |-> request.gpu_type,
             workload_type |-> request.workload_type,
             duration_hours |-> request.duration_hours,
             utilization_rate |-> request.utilization_rate])
    IN  IF simulated.op = "raise"
        THEN [status_code |-> 500, simulation_failed |-> TRUE,
              body |-> NoCall]
        ELSE [status_code |-> 200, simulation_failed |-> FALSE,
              body |-> [status |-> "success",
                        annual_kwh_per_gpu |-> simulated.total_energy_kwh]]


\* The bodies of the requests to the simulation endpoints: recognized and
\* unrecognized identifiers, utilization inside and outside [0, 100].
ApiConfigs ==
    {c \in Configs :
        /\ c.gpu_type \in {"A100", "RTX_4090", "B200"}
        /\ c.workload_type \in {"llm_training", "ai_training"}
        /\ c.utilization \in {80, 120}
        /\ c.duration_hours = 1
        /\ c.custom_tdp = None}

\* The endpoint works on an instance of its own.
GetRegionalGpuEfficiency ==
    /\ LET r == get_regional_gpu_efficiency(disk, now)
       IN  ret' = [op |-> "GET /regional-gpu-efficiency",
                   status_code |-> r.status_code,
                   failed_simulations |-> r.failed_simulations,
                   body |-> r.body]
    /\ UNCHANGED <<disk, comprehensive_data, cached_data, cache_expiry, now>>
    /\ UNCHANGED <<sim_vars, sc_vars, an_vars, thr_vars, load_vars>>

\* One request POST /optimal-datacenter-config for the GPU, workload,
\* duration and utilization of sim_config.
PostOptimalDatacenterConfig ==
    /\ \E datacenter_capacity_mw \in Loads :
           LET request == [gpu_type |-> sim_config.gpu_type,
                           workload_type |-> sim_config.workload_type,
                           duration_hours |-> sim_config.duration_hours,
                           utilization_rate |-> sim_config.utilization,
                           datacenter_capacity_mw |-> datacenter_capacity_mw]
               r == get_optimal_datacenter_config(disk, request, now)
           IN  ret' = [op |-> "POST /optimal-datacenter-config",
                       request |-> request,
                       status_code |-> r.status_code,
                       simulation_failed |-> r.simulation_failed,
                       body |-> r.body]
    /\ UNCHANGED <<disk, comprehensive_data, cached_data, cache_expiry, now>>
    /\ UNCHANGED <<sim_vars, sc_vars, an_vars, thr_vars, load_vars>>


-----------------------------------------------------------------------------
(* KEPCODataService: threads sharing one instance                          *)

\* The threads that call get_regional_power_consumption on one instance.
Threads == {1, 2}

\* The clock of the runs with threads.
RaceMaxTime == 2

\* The analysis files of the runs with threads.
RaceFiles == {f \in CacheFiles : f.readable}

\* A thread outside any call, before its first one.
IdleThread ==
    [pc |-> "idle", year |-> 2024, result |-> NoCall, hit |-> FALSE,
     value |-> NoCall]

ThreadsIdle == threads = [i \in Threads |-> IdleThread]

TickRace ==
    /\ now < RaceMaxTime
    /\ now' = now + 1
    /\ UNCHANGED <<disk, comprehensive_data, cached_data, cache_expiry, ret>>
    /\ UNCHANGED <<sim_vars, sc_vars, an_vars, thr_vars, load_vars>>

\* A thread enters get_regional_power_consumption(year).
EnterGetRegional ==
    /\ \E i \in Threads, year \in Years :
           /\ threads[i].pc = "idle"
           /\ threads' = [threads EXCEPT ![i] =
                  [pc |-> "check", year |-> year, result |-> NoCall,
                   hit |-> FALSE, value |-> NoCall]]
    /\ UNCHANGED svc_vars
    /\ UNCHANGED <<sim_vars, sc_vars, an_vars, load_vars>>

\* if self._is_cache_valid(cache_key):
CheckCache ==
    /\ \E i \in Threads :
           /\ threads[i].pc = "check"
           /\ threads' = [threads EXCEPT ![i].pc =
                  IF is_cache_valid(Self, RegionalKey(threads[i].year), now)
                  THEN "read" ELSE "build"]
    /\ UNCHANGED svc_vars
    /\ UNCHANGED <<sim_vars, sc_vars, an_vars, load_vars>>

\* return self.cached_data[cache_key]
ReturnCached ==
    /\ \E i \in Threads :
           /\ threads[i].pc = "read"
           /\ threads' = [threads EXCEPT ![i].pc = "idle",
                                         ![i].hit = TRUE,
                                         ![i].value =
                  cached_data[RegionalKey(threads[i].year)]]
    /\ UNCHANGED svc_vars
    /\ UNCHANGED <<sim_vars, sc_vars, an_vars, load_vars>>

\* The try block: result is built, with datetime.now() as last_updated.
BuildResult ==
    /\ \E i \in Threads :
           /\ threads[i].pc = "build"
           /\ threads' = [threads EXCEPT ![i].pc = "write_value",
                                         ![i].result =
                  build_regional_result(Self, threads[i].year, now)]
    /\ UNCHANGED svc_vars
    /\ UNCHANGED <<sim_vars, sc_vars, an_vars, load_vars>>

\* _cache_data: self.cached_data[cache_key] = data
WriteCachedData ==
    /\ \E i \in Threads :
           /\ threads[i].pc = "write_value"
           /\ cached_data' = [cached_data EXCEPT
                  ![RegionalKey(threads[i].year)] = threads[i].result]
           /\ threads' = [threads EXCEPT ![i].pc = "write_expiry"]
    /\ UNCHANGED <<disk, comprehensive_data, cache_expiry, now, ret>>
    /\ UNCHANGED <<sim_vars, sc_vars, an_vars, load_vars>>

\* _cache_data: self.cache_expiry[cache_key] = datetime.now() + 1 hour, and
\* then `return result`.
WriteCacheExpiry ==
    /\ \E i \in Threads :
           /\ threads[i].pc = "write_expiry"
           /\ cache_expiry' = [cache_expiry EXCEPT
                  ![RegionalKey(threads[i].year)] =
                      Some(now + CacheHours * TicksPerHour)]
           /\ threads' = [threads EXCEPT ![i].pc = "idle",
                                         ![i].value = threads[i].result]
    /\ UNCHANGED <<disk, comprehensive_data, cached_data, now, ret>>
    /\ UNCHANGED <<sim_vars, sc_vars, an_vars, load_vars>>


-----------------------------------------------------------------------------
(* KEPCODataService.analyze_datacenter_impact: the lines after the lookup  *)

\* capacity_utilization > bound percent, decided on the exact quotient
\* (total / 8760 + load) / capacity * 100.
UtilizationAbove(total_consumption_mwh, supply_capacity, load, bound) ==
    (total_consumption_mwh + HoursPerYear * load) * 100
        > bound * HoursPerYear * supply_capacity

\* risk_level: "low", raised to "high" above 90 percent and to "moderate"
\* above 80 percent.
risk_level(total_consumption_mwh, supply_capacity, load) ==
    IF UtilizationAbove(total_consumption_mwh, supply_capacity, load, 90)
    THEN "high"
    ELSE IF UtilizationAbove(total_consumption_mwh, supply_capacity, load, 80)
         THEN "moderate"
         ELSE "low"

\* A plausible slip: the upgrade flag is raised above 95 percent only.
infrastructure_upgrade_needed_above_95(total_consumption_mwh, supply_capacity, load) ==
    UtilizationAbove(total_consumption_mwh, supply_capacity, load, 95)

\* "infrastructure_upgrade_needed": capacity_utilization > 85
infrastructure_upgrade_needed(total_consumption_mwh, supply_capacity, load) ==
    UtilizationAbove(total_consumption_mwh, supply_capacity, load, 85)

\* The values that analyze_datacenter_impact has computed for its report
\* when it reaches "recommended_actions".  Units: current_consumption_mw,
\* remaining_capacity_mw and capacity_utilization_percent in tenths
\* (round(., 1)), load_increase_percent in hundredths (round(., 2)).
\*   (total + 8760 L) * 1000 / (8760 * cap) = (total + 8760 L) * 25 / (219 cap)
ImpactValues(location, region_info, datacenter_power_mw) ==
    LET total == region_info.total_consumption_mwh
        supply_capacity == region_info.supply_capacity_mw
    IN  [location |-> location,
         datacenter_power_mw |-> datacenter_power_mw,
         current_consumption_mw |-> RoundHalfEven(total * 10, HoursPerYear),
         supply_capacity_mw |-> supply_capacity,
         load_increase_percent |->
             RoundMulDivWide(datacenter_power_mw * HoursPerYear * 100, 100,
                             1000, total \div 1000),
         remaining_capacity_mw |->
             RoundHalfEven((supply_capacity - datacenter_power_mw)
                               * HoursPerYear * 10 - total * 10,
                           HoursPerYear),
         capacity_utilization_percent |->
             RoundMulDiv(total + HoursPerYear * datacenter_power_mw, 25,
                         219 * supply_capacity),
         grid_stability_risk |->
             risk_level(total, supply_capacity, datacenter_power_mw),
         infrastructure_upgrade_needed |->
             infrastructure_upgrade_needed(total, supply_capacity,
                                           datacenter_power_mw)]

\* analyze_datacenter_impact from the membership test on, for a regional_data
\* that maps region names to dicts with total_consumption_mwh and
\* supply_capacity_mw.  A division by zero raises; otherwise every value of
\* the report is computed and then self._get_recommendations is looked up,
\* a method that the class does not define: the call ends in AttributeError
\* and returns no report.
analyze_datacenter_impact_on(regional_data, location, datacenter_power_mw) ==
    IF location \notin DOMAIN regional_data
    THEN [outcome |-> "ValueError", computed |-> NoCall]
    ELSE LET region_info == regional_data[location]
         IN  IF region_info.total_consumption_mwh = 0
                \/ region_info.supply_capacity_mw = 0
             THEN [outcome |-> "ZeroDivisionError", computed |-> NoCall]
             ELSE [outcome |-> "AttributeError",
                   computed |-> ImpactValues(location, region_info,
                                             datacenter_power_mw)]

\* The regional_data of these runs: one region, its annual consumption in
\* MWh (multiples of 1000; 876000 MWh is 100 MW on average) and its supply
\* capacity in MW.
ImpactRegionalData ==
    {[r \in {"Gyeonggi"} |->
         [total_consumption_mwh |-> total, supply_capacity_mw |-> cap]] :
        total \in {0, 438000, 876000, 880000}, cap \in {0, 100, 120, 200}}

\* The added loads in MW: with 100 MW on average and 200 MW of capacity the
\* loads 60, 70 and 80 give exactly 80, 85 and 90 percent.
ImpactLoads == {0, 15, 60, 61, 70, 71, 80, 81, 100}

\* One call on a regional_data of that shape.
AnalyzeDatacenterImpactOn ==
    /\ \E regional_data \in ImpactRegionalData,
          location \in {"Gyeonggi", "Busan"},
          datacenter_power_mw \in ImpactLoads :
           LET r == analyze_datacenter_impact_on(regional_data, location,
                                                 datacenter_power_mw)
           IN  ret' = [op |-> "analyze_datacenter_impact_on",
                       regional_data |-> regional_data,
                       location |-> location,
                       datacenter_power_mw |-> datacenter_power_mw,
                       outcome |-> r.outcome,
                       computed |-> r.computed]
    /\ UNCHANGED <<disk, comprehensive_data, cached_data, cache_expiry, now>>
    /\ UNCHANGED <<sim_vars, sc_vars, an_vars, thr_vars, load_vars>>


-----------------------------------------------------------------------------
(* KEPCODataService.__init__ and _load_analysis_results                    *)

\* An attribute that the instance does not have (hasattr is False).
Unset == [op |-> "unset"]

\* The three files, in the order in which _load_analysis_results reads them,
\* each with the attribute it is read into.
FileNames == <<"comprehensive", "cost_gap", "monthly">>

\* A file that does not exist, and one that does: read_csv either returns
\* its table or raises (a file that cannot be parsed or decoded, or is empty).
AbsentFile == [exists |-> FALSE, readable |-> FALSE, content |-> <<>>]
WrittenFile(version, readable) ==
    [exists |-> TRUE, readable |-> readable,
     content |-> [rows |-> <<version>>, scored |-> TRUE]]

\* The states of one file whose content, if any, is of the given version.
FileStates(version) ==
    {AbsentFile, WrittenFile(version, TRUE), WrittenFile(version, FALSE)}

\* The attributes of the instance, by file name.
Attributes ==
    [comprehensive |-> comprehensive_data,
     cost_gap |-> cost_gap_data,
     monthly |-> monthly_data]

\* The loader after reading, or passing over, file number n.
AfterFile(n) ==
    [loader EXCEPT !.pc = IF n < Len(FileNames) THEN FileNames[n + 1]
                                                ELSE "defaults"]

\* if file.exists(): attribute = pd.read_csv(file), for file number n: the
\* value of the attribute afterwards. The attribute keeps its value when the
\* file is absent, and nothing is assigned when read_csv raises.
ReadInto(n, attribute) ==
    LET file == files[FileNames[n]]
    IN  IF file.exists /\ file.readable THEN file.content ELSE attribute

\* The loader after the step for file number n: on to the next file, or
\* into the except branch when read_csv raised.
StepFile(n) ==
    LET file == files[FileNames[n]]
    IN  IF file.exists /\ ~file.readable
        THEN [loader EXCEPT !.pc = "except"]
        ELSE AfterFile(n)

LoadComprehensive ==
    /\ loader.pc = "comprehensive"
    /\ comprehensive_data' = ReadInto(1, comprehensive_data)
    /\ loader' = StepFile(1)
    /\ UNCHANGED <<files, cost_gap_data, monthly_data>>
    /\ UNCHANGED <<disk, cached_data, cache_expiry, now, ret>>
    /\ UNCHANGED <<sim_vars, sc_vars, an_vars, thr_vars>>

LoadCostGap ==
    /\ loader.pc = "cost_gap"
    /\ cost_gap_data' = ReadInto(2, cost_gap_data)
    /\ loader' = StepFile(2)
    /\ UNCHANGED <<files, comprehensive_data, monthly_data>>
    /\ UNCHANGED <<disk, cached_data, cache_expiry, now, ret>>
    /\ UNCHANGED <<sim_vars, sc_vars, an_vars, thr_vars>>

LoadMonthly ==
    /\ loader.pc = "monthly"
    /\ monthly_data' = ReadInto(3, monthly_data)
    /\ loader' = StepFile(3)
    /\ UNCHANGED <<files, comprehensive_data, cost_gap_data>>
    /\ UNCHANGED <<disk, cached_data, cache_expiry, now, ret>>
    /\ UNCHANGED <<sim_vars, sc_vars, an_vars, thr_vars>>

\* A plausible slip: the except branch resets only the tables that have not
\* been loaded.
LoadExcept_keeps_loaded ==
    /\ loader.pc = "except"
    /\ comprehensive_data' =
           IF comprehensive_data = Unset THEN EmptyTable ELSE comprehensive_data
    /\ cost_gap_data' = IF cost_gap_data = Unset THEN EmptyTable ELSE cost_gap_data
    /\ monthly_data' = IF monthly_data = Unset THEN EmptyTable ELSE monthly_data
    /\ loader' = [loader EXCEPT !.pc = "defaults"]
    /\ UNCHANGED <<files, disk, cached_data, cache_expiry, now, ret>>
    /\ UNCHANGED <<sim_vars, sc_vars, an_vars, thr_vars>>

\* except Exception: the three attributes are set to pd.DataFrame().
LoadExcept ==
    /\ loader.pc = "except"
    /\ comprehensive_data' = EmptyTable
    /\ cost_gap_data' = EmptyTable
    /\ monthly_data' = EmptyTable
    /\ loader' = [loader EXCEPT !.pc = "defaults"]
    /\ UNCHANGED <<files, disk, cached_data, cache_expiry, now, ret>>
    /\ UNCHANGED <<sim_vars, sc_vars, an_vars, thr_vars>>

\* if not hasattr(self, ...): an attribute that is still missing is set to
\* pd.DataFrame(); _load_analysis_results returns.
LoadDefaults ==
    /\ loader.pc = "defaults"
    /\ comprehensive_data' =
           IF comprehensive_data = Unset THEN EmptyTable ELSE comprehensive_data
    /\ cost_gap_data' = IF cost_gap_data = Unset THEN EmptyTable ELSE cost_gap_data
    /\ monthly_data' = IF monthly_data = Unset THEN EmptyTable ELSE monthly_data
    /\ loader' = [loader EXCEPT !.pc = "loaded"]
    /\ UNCHANGED <<files, disk, cached_data, cache_expiry, now, ret>>
    /\ UNCHANGED <<sim_vars, sc_vars, an_vars, thr_vars>>

\* __init__ after the first load, with an empty comprehensive table:
\* _run_analysis_if_needed runs the analysis script, which may write any of
\* the files anew, and loads the results again when the script succeeded.
RunAnalysisAndReload ==
    /\ loader.pc = "loaded"
    /\ loader.loads = 1
    /\ Empty(comprehensive_data)
    /\ files' \in {fs \in [DOMAIN files -> FileStates(2)] :
                      \A f \in DOMAIN files :
                          fs[f] = AbsentFile => files[f] = AbsentFile}
    /\ loader' = [pc |-> "comprehensive", loads |-> 2, before |-> Attributes]
    /\ UNCHANGED <<comprehensive_data, cost_gap_data, monthly_data>>
    /\ UNCHANGED <<disk, cached_data, cache_expiry, now, ret>>
    /\ UNCHANGED <<sim_vars, sc_vars, an_vars, thr_vars>>

\* __init__ returns: the comprehensive table is not empty, or the analysis
\* script was missing or failed, or the results have been loaded again.
FinishInit ==
    /\ loader.pc = "loaded"
    /\ loader' = [loader EXCEPT !.pc = "ready"]
    /\ UNCHANGED <<files, comprehensive_data, cost_gap_data, monthly_data>>
    /\ UNCHANGED <<disk, cached_data, cache_expiry, now, ret>>
    /\ UNCHANGED <<sim_vars, sc_vars, an_vars, thr_vars>>

\* Outside the runs of the loader: no files, the tables of the other runs.
LoadIdle ==
    /\ files = [f \in {"comprehensive", "cost_gap", "monthly"} |-> AbsentFile]
    /\ cost_gap_data = EmptyTable
    /\ monthly_data = EmptyTable
    /\ loader = [pc |-> "ready", loads |-> 1,
                 before |-> [f \in {"comprehensive", "cost_gap", "monthly"} |->
                                EmptyTable]]

ServiceIdle ==
    /\ disk = [rows |-> <<>>, scored |-> TRUE, readable |-> TRUE]
    /\ comprehensive_data = EmptyTable
    /\ cached_data = [k \in CacheKeys |-> Missing]
    /\ cache_expiry = [k \in CacheKeys |-> None]
    /\ now = 0
    /\ ret = NoCall
    /\ ThreadsIdle
    /\ LoadIdle

-----------------------------------------------------------------------------
(* Specifications                                                          *)

InitSim ==
    /\ sim_config \in Configs
    /\ sim_local = NoCall
    /\ sim_result = NoCall
    /\ sim_response = NoCall
    /\ ScoreIdle
    /\ AnalyzerIdle
    /\ ServiceIdle

NextSim == SimulateWorkloadPower \/ SimulateGpuWorkload

SpecSim == InitSim /\ [][NextSim]_vars

InitScore ==
    /\ sc_row \in ScoreRows
    /\ sc_out = NoCall
    /\ sc_raises = 0
    /\ SimIdle
    /\ AnalyzerIdle
    /\ ServiceIdle

NextScore == ScoreRegion \/ RaiseInfrastructure \/ RaiseCostEfficiency

SpecScore == InitScore /\ [][NextScore]_vars

InitAnalyzer ==
    /\ an_stats \in StatsTables
    /\ an_data = NoCall
    /\ SimIdle
    /\ ScoreIdle
    /\ ServiceIdle

NextAnalyzer == FindOptimalDatacenterLocations

SpecAnalyzer == InitAnalyzer /\ [][NextAnalyzer]_vars

InitService ==
    /\ disk \in AnalysisFiles
    /\ comprehensive_data = NewService(disk).comprehensive_data
    /\ cached_data = NewService(disk).cached_data
    /\ cache_expiry = NewService(disk).cache_expiry
    /\ now = 0
    /\ ret = NoCall
    /\ ThreadsIdle
    /\ LoadIdle
    /\ SimIdle
    /\ ScoreIdle
    /\ AnalyzerIdle

NextService ==
    \/ Tick
    \/ Construct
    \/ GetRegionalPowerConsumption
    \/ GetPowerPlantData
    \/ AnalyzeDatacenterImpact
    \/ FindOptimalLocations
    \/ PostDatacenterImpact

SpecService == InitService /\ [][NextService]_vars

InitCache ==
    /\ disk \in CacheFiles
    /\ comprehensive_data = NewService(disk).comprehensive_data
    /\ cached_data = NewService(disk).cached_data
    /\ cache_expiry = NewService(disk).cache_expiry
    /\ now = 0
    /\ ret = NoCall
    /\ ThreadsIdle
    /\ LoadIdle
    /\ SimIdle
    /\ ScoreIdle
    /\ AnalyzerIdle

NextCache ==
    \/ TickCache
    \/ Construct
    \/ GetRegionalPowerConsumption
    \/ GetPowerPlantData
    \/ AnalyzeDatacenterImpact
    \/ GetRegionalPowerData

SpecCache == InitCache /\ [][NextCache]_vars

InitApi ==
    /\ sim_config \in ApiConfigs
    /\ sim_local = NoCall
    /\ sim_result = NoCall
    /\ sim_response = NoCall
    /\ disk \in CacheFiles
    /\ comprehensive_data = NewService(disk).comprehensive_data
    /\ cached_data = NewService(disk).cached_data
    /\ cache_expiry = NewService(disk).cache_expiry
    /\ now = 0
    /\ ret = NoCall
    /\ ThreadsIdle
    /\ LoadIdle
    /\ ScoreIdle
    /\ AnalyzerIdle

NextApi ==
    \/ SimulateGpuWorkload
    \/ PostDatacenterImpact
    \/ GetRegionalGpuEfficiency
    \/ PostOptimalDatacenterConfig

InitRace ==
    /\ disk \in RaceFiles
    /\ comprehensive_data = NewService(disk).comprehensive_data
    /\ cached_data = NewService(disk).cached_data
    /\ cache_expiry = NewService(disk).cache_expiry
    /\ now = 0
    /\ ret = [op |-> "__init__"]
    /\ ThreadsIdle
    /\ LoadIdle
    /\ SimIdle
    /\ ScoreIdle
    /\ AnalyzerIdle

NextRace ==
    \/ TickRace
    \/ EnterGetRegional
    \/ CheckCache
    \/ ReturnCached
    \/ BuildResult
    \/ WriteCachedData
    \/ WriteCacheExpiry

SpecRace == InitRace /\ [][NextRace]_vars

InitImpact ==
    /\ ServiceIdle
    /\ SimIdle
    /\ ScoreIdle
    /\ AnalyzerIdle

NextImpact == AnalyzeDatacenterImpactOn

SpecImpact == InitImpact /\ [][NextImpact]_vars

\* __init__ has set the cache dicts and is about to call
\* _load_analysis_results; no table attribute exists yet.
InitLoad ==
    /\ files \in [{"comprehensive", "cost_gap", "monthly"} -> FileStates(1)]
    /\ comprehensive_data = Unset
    /\ cost_gap_data = Unset
    /\ monthly_data = Unset
    /\ loader = [pc |-> "comprehensive", loads |-> 1,
                 before |-> [f \in {"comprehensive", "cost_gap", "monthly"} |->
                                Unset]]
    /\ disk = [rows |-> <<>>, scored |-> TRUE, readable |-> TRUE]
    /\ cached_data = [k \in CacheKeys |-> Missing]
    /\ cache_expiry = [k \in CacheKeys |-> None]
    /\ now = 0
    /\ ret = NoCall
    /\ ThreadsIdle
    /\ SimIdle
    /\ ScoreIdle
    /\ AnalyzerIdle

NextLoad ==
    \/ LoadComprehensive
    \/ LoadCostGap
    \/ LoadMonthly
    \/ LoadExcept
    \/ LoadDefaults
    \/ RunAnalysisAndReload
    \/ FinishInit

SpecLoad == InitLoad /\ [][NextLoad]_vars

SpecApi == InitApi /\ [][NextApi]_vars

-----------------------------------------------------------------------------
(* Claims about the regional scores (checked under SpecScore)              *)

Grades == {"S", "A", "B", "C", "D"}

\* C6: every overall score in [0, 100] gets exactly one grade: S from 80,
\* A from 70 to below 80, B from 60 to below 70, C from 50 to below 60 and D
\* below 50.
C6_GradeThresholds ==
    sc_out.op = "scored"
        => LET o == sc_out.overall
               g == sc_out.grade
           IN  /\ o \in 0..FullScore
               /\ g \in Grades
               /\ (g = "S") <=> (o >= 8000)
               /\ (g = "A") <=> (o >= 7000 /\ o < 8000)
               /\ (g = "B") <=> (o >= 6000 /\ o < 7000)
               /\ (g = "C") <=> (o >= 5000 /\ o < 6000)
               /\ (g = "D") <=> (o < 5000)

\* C6 witness: the score 70.00, the lowest that is graded A.
C6_Witness ==
    /\ sc_out.op = "scored"
    /\ sc_out.overall = 7000
    /\ sc_out.grade = "A"

\* C8: when one of the two scores of a region is raised and the other is
\* kept, the overall score does not decrease.
C8_OverallMonotone ==
    [][(sc_out.op = "scored" /\ sc_out'.op = "scored"
        /\ sc_row'.infra >= sc_row.infra /\ sc_row'.cost >= sc_row.cost)
            => sc_out'.overall >= sc_out.overall]_vars

\* C8 witness: the cost-efficiency score was raised from 50.00 to 50.17 with
\* the infrastructure score kept at 50.00; the overall score rose to 50.10.
C8_Witness ==
    /\ sc_raises = 1
    /\ sc_row = [infra |-> 5000, cost |-> 5017]
    /\ sc_out.op = "scored"
    /\ sc_out.overall = 5010

-----------------------------------------------------------------------------
(* Claims about the analyzer's table (checked under SpecAnalyzer)          *)

\* C7: after find_optimal_datacenter_locations scored N regions the ranks
\* are a permutation of 1..N, and a region with a strictly higher overall
\* score has a strictly smaller rank.
C7_RanksPermutationByScore ==
    an_data.op = "scored"
        => LET n == Len(an_stats)
               t == an_data.rows
           IN  /\ Len(t) = n
               /\ {t[k].rank : k \in 1..n} = 1..n
               /\ \A a, b \in 1..n : t[a].rank = t[b].rank => a = b
               /\ \A a, b \in 1..n :
                      t[a].overall > t[b].overall => t[a].rank < t[b].rank

\* C7 witness: three regions with three different scores were ranked, and
\* the region of lowest usage came out first.
C7_Witness ==
    /\ an_data.op = "scored"
    /\ Len(an_data.rows) = 3
    /\ an_data.rows[1].overall > an_data.rows[2].overall
    /\ an_data.rows[2].overall > an_data.rows[3].overall
    /\ an_data.rows[1].region = an_stats[3].region
    /\ an_data.rows[1].rank = 1

-----------------------------------------------------------------------------
(* Claims about KEPCODataService (checked under SpecService)               *)

\* The snapshot that the last analyze_datacenter_impact call worked on: the
\* call reads it through get_regional_power_consumption(), which leaves it
\* in the cache under the key of its default year.
CurrentSnapshot == cached_data["regional_consumption_2024"]

\* C5: analyze_datacenter_impact(R, L) fails with the unknown-region error
\* exactly when R is not one of the regions of the current snapshot, and it
\* returns an impact report for every R that is one of them.
C5_ImpactReportIffKnownRegion ==
    ret.op = "analyze_datacenter_impact"
        => LET known == ret.location \in DOMAIN CurrentSnapshot.regions
           IN  /\ (ret.outcome = "ValueError") <=> ~known
               /\ known => ret.outcome = "returned"

\* The regions of the loaded table that a returned list leaves out.
LeftOut(value) ==
    {k \in 1..Len(comprehensive_data.rows) :
        \A i \in 1..Len(value) :
            value[i].region # comprehensive_data.rows[k].region}

\* `value` is in non-increasing order of score and no row of the loaded
\* table that it leaves out scores higher than one it holds (a table
\* without score columns has no scores to compare).
BestFirst(value) ==
    /\ \A i, j \in 1..Len(value) :
           i < j => value[i].overall_efficiency_score
                        >= value[j].overall_efficiency_score
    /\ comprehensive_data.scored
           => \A k \in LeftOut(value), i \in 1..Len(value) :
                  comprehensive_data.rows[k].overall
                      <= value[i].overall_efficiency_score

Min2(a, b) == IF a < b THEN a ELSE b

\* C9 as stated: for top_n >= 0 and N regions in the loaded table the call
\* returns exactly min(top_n, N) candidates, best first.
C9_ReturnsMinTopNOfTable ==
    (ret.op = "find_optimal_datacenter_locations" /\ ret.top_n >= 0)
        => /\ Len(ret.value) = Min2(ret.top_n, Len(comprehensive_data.rows))
           /\ BestFirst(ret.value)

\* C9, amended: for top_n >= 0 and a loaded table of N >= 1 regions whose
\* score columns can be read the call returns exactly min(top_n, N)
\* candidates, all of them regions of the table, best first; for an empty
\* table, or one whose scores cannot be read, it returns the first
\* min(top_n, 2) entries of the simulated list (Sejong, Daejeon).
C9_TopCandidatesOrFallback ==
    (ret.op = "find_optimal_datacenter_locations" /\ ret.top_n >= 0)
        => LET n == Len(comprehensive_data.rows)
               value == ret.value
           IN  IF n >= 1 /\ comprehensive_data.scored
               THEN /\ Len(value) = Min2(ret.top_n, n)
                    /\ Cardinality(LeftOut(value)) = n - Len(value)
                    /\ BestFirst(value)
               ELSE /\ Len(value) = Min2(ret.top_n, 2)
                    /\ \A i \in 1..Len(value) :
                           value[i].region = <<"Sejong", "Daejeon">>[i]

\* C9 witness: the two best of three regions were returned, the first
\* scoring higher than the second.
C9_Witness ==
    /\ ret.op = "find_optimal_datacenter_locations"
    /\ ret.top_n = 2
    /\ ~ret.fallback
    /\ Len(comprehensive_data.rows) = 3
    /\ Len(ret.value) = 2
    /\ ret.value[1].overall_efficiency_score
           > ret.value[2].overall_efficiency_score

\* C10: a find_optimal_datacenter_locations call leaves the table and the
\* cache of the instance as they were, and a call that repeats the call
\* before it (same required_power_mw and top_n, any time later) returns the
\* same list in the same order.
C10_FindIdempotent ==
    [][ret'.op = "find_optimal_datacenter_locations"
        => /\ comprehensive_data' = comprehensive_data
           /\ cached_data' = cached_data
           /\ cache_expiry' = cache_expiry
           /\ ret'.repeat => ret'.value = ret.value]_vars

\* C10 witness: the call was repeated while a cached snapshot was still
\* valid, and returned two candidates of the loaded table.
C10_Witness ==
    /\ ret.op = "find_optimal_datacenter_locations"
    /\ ret.repeat
    /\ ~ret.fallback
    /\ Len(ret.value) = 2
    /\ is_cache_valid(Self, "regional_consumption_2024", now)

\* C11 as stated: with an empty loaded table the call returns an empty list
\* for every required_power_mw and top_n.
C11_EmptyTableGivesEmptyList ==
    (ret.op = "find_optimal_datacenter_locations" /\ Empty(comprehensive_data))
        => Len(ret.value) = 0

\* C11, amended: with an empty loaded table the call returns, for every
\* required_power_mw and every top_n >= 0, the first min(top_n, 2) entries of
\* the simulated list (Sejong 75.5, then Daejeon 72.3), which is the empty
\* list only for top_n = 0.
C11_EmptyTableGivesSimulatedList ==
    (/\ ret.op = "find_optimal_datacenter_locations"
     /\ Empty(comprehensive_data)
     /\ ret.top_n >= 0)
        => /\ ret.fallback
           /\ Len(ret.value) = Min2(ret.top_n, 2)
           /\ (Len(ret.value) = 0) <=> (ret.top_n = 0)
           /\ \A i \in 1..Len(ret.value) :
                  /\ ret.value[i].region = <<"Sejong", "Daejeon">>[i]
                  /\ ret.value[i].overall_efficiency_score = <<7550, 7230>>[i]
                  /\ ret.value[i].recommended

\* C11 witness: with an empty table and top_n = 5 the call returned the two
\* simulated candidates.
C11_Witness ==
    /\ ret.op = "find_optimal_datacenter_locations"
    /\ Empty(comprehensive_data)
    /\ ret.top_n = 5
    /\ ret.required_power_mw = 300
    /\ Len(ret.value) = 2
    /\ ret.value[2].region = "Daejeon"

\* Building the snapshot from `data` raises: a row that is not skipped is
\* read from a table without score columns.
BuildingRaises(data) == SnapshotRows(data) # {} /\ ~data.scored

\* C12: get_regional_power_consumption always returns a snapshot; when the
\* loaded table is empty or building the snapshot from it raises, the
\* snapshot is the simulated dataset (data_source "simulation", the two
\* fixed regions); and when loading the analysis files raised at
\* construction, the instance exists with an empty table.
C12_RegionalNeverRaises ==
    /\ ~disk.readable => Empty(comprehensive_data)
    /\ ret.op = "get_regional_power_consumption"
           => /\ ret.value.status = "success"
              /\ ret.value.year = ret.year
              /\ (Empty(comprehensive_data) \/ BuildingRaises(comprehensive_data))
                     => /\ ret.value.data_source = "simulation"
                        /\ DOMAIN ret.value.regions = {"Seoul", "Gyeonggi"}
                        /\ ret.value.regions["Seoul"].current_consumption_mwh
                               = 180000

\* C12 witness: the analysis files could not be read, and a read that was
\* not served from the cache returned the simulated dataset.
C12_Witness ==
    /\ ~disk.readable
    /\ Len(disk.rows) > 0
    /\ ret.op = "get_regional_power_consumption"
    /\ ~ret.hit
    /\ ret.value.data_source = "simulation"

-----------------------------------------------------------------------------
(* Claims about the cache of KEPCODataService (checked under SpecCache)    *)

\* The return r is that of a call that reads cache key k.
ReadOf(r, k) ==
    \/ /\ r.op = "get_regional_power_consumption"
       /\ k = (IF r.year = 2023 THEN "regional_consumption_2023"
                                ELSE "regional_consumption_2024")
    \/ /\ r.op = "get_power_plant_data"
       /\ k = "power_plants"
    \/ /\ r.op = "analyze_datacenter_impact"
       /\ k = "regional_consumption_2024"

\* The call that returned r hands the value read to its caller.
ReturnsValue(r) ==
    r.op \in {"get_regional_power_consumption", "get_power_plant_data"}

\* Key k holds an entry whose expiry lies strictly after the present time.
Fresh(k) ==
    /\ cached_data[k] # Missing
    /\ cache_expiry[k] # None
    /\ now < cache_expiry[k][1]

\* The entry of key k is not what it was.
Rewritten(k) ==
    \/ cached_data'[k] # cached_data[k]
    \/ cache_expiry'[k] # cache_expiry[k]

\* C13: a read of a key made strictly before the stored expiry returns the
\* cached value and writes nothing; a read made at or after the expiry (or
\* of a key never stored) recomputes the value, stores it and sets the
\* expiry one hour after the time of the read; and an entry is rewritten
\* only by such a read (a new instance starts with an empty cache), never by
\* the passing of time.
C13_LazyExpiry ==
    [][\A k \in CacheKeys :
        /\ now' # now => ~Rewritten(k)
        /\ (now' = now /\ ReadOf(ret', k) /\ Fresh(k))
               => /\ ~Rewritten(k)
                  /\ ReturnsValue(ret')
                         => ret'.hit /\ ret'.value = cached_data[k]
        /\ (now' = now /\ ReadOf(ret', k) /\ ~Fresh(k))
               => /\ cached_data'[k] # Missing
                  /\ cache_expiry'[k] = <<now + CacheHours * TicksPerHour>>
                  /\ ReturnsValue(ret')
                         => ~ret'.hit /\ ret'.value = cached_data'[k]
                  /\ ret'.op = "get_regional_power_consumption"
                         => ret'.value.last_updated = now
        /\ (now' = now /\ Rewritten(k))
               => \/ ReadOf(ret', k) /\ ~Fresh(k)
                  \/ /\ ret'.op = "__init__"
                     /\ cached_data'[k] = Missing
                     /\ cache_expiry'[k] = <<>>]_vars

\* C13 witness: the snapshot of 2024 was recomputed by a read made after an
\* hour had passed, and expires an hour after that read, while the plant
\* data stored at the start, expired by now, has not been refreshed.
C13_Witness ==
    /\ now = 2
    /\ ret.op = "get_regional_power_consumption"
    /\ ret.year = 2024
    /\ ~ret.hit
    /\ ret.value.last_updated = 2
    /\ cache_expiry["regional_consumption_2024"] = <<3>>
    /\ cache_expiry["power_plants"] = <<1>>
    /\ cached_data["power_plants"] # Missing

\* C14: a request to GET /regions that follows, within one hour, a request
\* for the same year is served from the cache that the first one filled.
C14_SecondRequestServedFromCache ==
    (/\ ret.op = "GET /regions"
     /\ ret.previous # None
     /\ ret.at - ret.previous[1] < CacheHours * TicksPerHour)
        => ret.hit

-----------------------------------------------------------------------------
(* Claims about the request boundary (checked under SpecApi)               *)

ClientError(status_code) == status_code >= 400 /\ status_code <= 499

-----------------------------------------------------------------------------
(* Claims about threads refreshing the regional cache                      *)

\* Thread i has built its result and is writing it to the cache.
Refreshing(i) == threads[i].pc \in {"write_value", "write_expiry"}

\* Two threads refresh the entry of the same year at the same time.
ConcurrentRefresh(i, j) ==
    /\ i # j
    /\ Refreshing(i)
    /\ Refreshing(j)
    /\ threads[i].year = threads[j].year

\* Two snapshots agree in every field but the time they were built.
SameAggregate(a, b) ==
    [a EXCEPT !.last_updated = 0] = [b EXCEPT !.last_updated = 0]

\* C16 as stated: two threads that refresh the entry of one year at the same
\* time have built the same result, which is also the value the cache holds.
C16_ConcurrentRefreshesBuildSameValue ==
    \A i, j \in Threads :
        ConcurrentRefresh(i, j) =>
            /\ threads[i].result = threads[j].result
            /\ cached_data[RegionalKey(threads[i].year)] # Missing =>
                   cached_data[RegionalKey(threads[i].year)] = threads[i].result

\* C16, amended: whatever the interleaving of the threads' steps, the cache
\* entry of a year, the results of concurrent refreshes and every value a
\* thread has returned agree with what one refresh of that year builds in
\* every field except last_updated, the time of the refresh.
C16_RaceKeepsAggregate ==
    /\ \A y \in Years :
           cached_data[RegionalKey(y)] # Missing =>
               SameAggregate(cached_data[RegionalKey(y)],
                             build_regional_result(Self, y, now))
    /\ \A i \in Threads :
           threads[i].value # NoCall =>
               SameAggregate(threads[i].value,
                             build_regional_result(Self, threads[i].year, now))
    /\ \A i, j \in Threads :
           ConcurrentRefresh(i, j) =>
               SameAggregate(threads[i].result, threads[j].result)

\* Both threads found the entry of one year expired and refreshed it; thread 1
\* built its result first and wrote it last, so the cache holds the older one.
C16_Witness ==
    /\ threads[1].pc = "idle" /\ threads[2].pc = "idle"
    /\ threads[1].value # NoCall /\ threads[2].value # NoCall
    /\ ~threads[1].hit /\ ~threads[2].hit
    /\ threads[1].year = threads[2].year
    /\ threads[1].value.last_updated < threads[2].value.last_updated
    /\ cached_data[RegionalKey(threads[1].year)] = threads[1].value
    /\ cache_expiry[RegionalKey(threads[1].year)] = Some(now + 1)

-----------------------------------------------------------------------------
(* Claims about the formulas of simulate_workload_power                    *)

\* The example of the specification: an A100 training a language model at
\* 80 percent utilization for one hour, without a TDP override.
ExampleConfig ==
    [gpu_type |-> "A100", workload_type |-> "llm_training", utilization |-> 80,
     duration_hours |-> 1, custom_tdp |-> None]

\* C17: the power-efficiency coefficient (ten-thousandths here) of a returned
\* simulation is (base efficiency of the workload + architecture bonus of the
\* GPU) times 0.85 below utilization 50, times 0.90 above 95 and times 1.0
\* from 50 to 95 inclusive; the example has coefficient 0.97, 310.4 W,
\* hourly_power_kw 0.310 and total_energy_kwh 0.310.
C17_CoefficientByBand ==
    sim_local.op = "locals" =>
        LET u == sim_config.utilization
            base == workload_efficiency(sim_config.workload_type)
                    + arch_bonus(architecture(sim_config.gpu_type))
        IN  /\ u < 50 => sim_local.power_efficiency = base * 85
            /\ u > 95 => sim_local.power_efficiency = base * 90
            /\ (50 <= u /\ u <= 95) => sim_local.power_efficiency = base * 100
            /\ sim_config = ExampleConfig =>
                   /\ sim_local.power_efficiency = 9700
                   /\ sim_local.actual_power_watts = 310400000
                   /\ sim_result.hourly_power_kw = 310
                   /\ sim_result.total_energy_kwh = 310

\* C17 witness: the example was simulated and returned with the coefficient
\* of the full band.
C17_Witness ==
    /\ sim_result.op = "return"
    /\ sim_config = ExampleConfig
    /\ sim_local.power_efficiency = 9700

\* C18 as stated: the temperature of a returned simulation (tenths of a
\* degree here) is 35 + 45 x actual power / base_tdp, the TDP the power was
\* computed from, and lies in [35, 80] for every utilization in [0, 100] and
\* any positive TDP override.
C18_TemperatureFromResolvedTdp ==
    (sim_local.op = "locals" /\ UtilizationInRange(sim_config)
                             /\ sim_local.base_tdp > 0) =>
        /\ sim_result.temperature_estimate_c =
               estimate_temperature(sim_local.actual_power_watts,
                                    sim_local.base_tdp)
        /\ sim_result.temperature_estimate_c >= 350
        /\ sim_result.temperature_estimate_c <= 800

\* The pairs that workload_scores has an entry for.
HasSuitabilityEntry(g, w) ==
    /\ g \in {"H100", "A100", "L4"}
    /\ w \in {"llm_training", "llm_inference", "computer_vision", "inference",
              "stable_diffusion"}

\* The utilization-closeness score max(50, 100 - 0.5 x |85 - u|), in
\* hundredths of a point.
Closeness(u) ==
    IF 10000 - 50 * Abs(85 - u) < 5000 THEN 5000 ELSE 10000 - 50 * Abs(85 - u)

\* C19: the efficiency score of a simulation (hundredths of a point here) is
\* the average of the suitability entry of the pair (70 without an entry) and
\* the closeness score; for the same GPU and workload no utilization at least
\* as far from 85 scores higher, so the score is maximal at 85.
C19_ScoreIsAverageAndPeaksAt85 ==
    sim_local.op = "locals" =>
        LET g == sim_config.gpu_type
            w == sim_config.workload_type
            u == sim_config.utilization
        IN  /\ 2 * sim_local.efficiency_score =
                   100 * workload_scores(g, w) + Closeness(u)
            /\ ~HasSuitabilityEntry(g, w) =>
                   2 * sim_local.efficiency_score = 7000 + Closeness(u)
            /\ \A u2 \in Utilizations :
                   Abs(85 - u2) >= Abs(85 - u) =>
                       calculate_efficiency_score(g, w, u2)
                           <= sim_local.efficiency_score
            /\ sim_result.efficiency_score =
                   RoundHalfEven(sim_local.efficiency_score, 10)

\* C19 witness: a pair without a suitability entry simulated at utilization
\* 85 scored (70 + 100) / 2 = 85.
C19_Witness ==
    /\ sim_local.op = "locals"
    /\ sim_config.gpu_type = "V100"
    /\ sim_config.workload_type = "llm_training"
    /\ sim_config.utilization = 85
    /\ sim_local.efficiency_score = 8500
    /\ sim_result.efficiency_score = 850

\* 2 * |n * unit - x * m / b| <= unit, for x * m beyond 32 bits: n is within
\* half a unit of the exact product x * m / b.  (x * m = hi * b + lo with
\* 0 <= lo < b; unit is even.)
WithinHalfUnit(n, unit, x, m, b) ==
    LET lowprod == (x % b) * m
        hi == (x \div b) * m + (lowprod \div b)
        lo == lowprod % b
        half == unit \div 2
    IN  /\ hi >= n * unit - half
        /\ \/ hi < n * unit + half
           \/ hi = n * unit + half /\ lo = 0

\* C20: every rounded field of a returned simulation is within half a unit
\* of its last place of the exact value: hourly power (kW, 3 decimals) of
\* the power, total energy (kWh, 3 decimals) of power x duration, cost (USD,
\* 2 decimals) of that energy x 0.12 and carbon (kg, 2 decimals) of that
\* energy x 0.4571.  No field carries the rounding error of another.
C20_RoundedOnlyAtOutput ==
    sim_local.op = "locals" =>
        LET p == sim_local.actual_power_watts
            e == sim_local.total_energy
        IN  /\ e = p * sim_config.duration_hours
            /\ 2 * Abs(sim_result.hourly_power_kw * 1000000 - p) <= 1000000
            /\ 2 * Abs(sim_result.total_energy_kwh * 1000000 - e) <= 1000000
            /\ WithinHalfUnit(sim_result.cost_estimate_usd, 10000, e,
                              power_cost_per_kwh, 100000)
            /\ WithinHalfUnit(sim_result.carbon_footprint_kg, 1000000, e,
                              carbon_factor, 100000)

\* C20 witness: a two-hour simulation whose energy is not twice the rounded
\* hourly power and whose cost is not the cost of the rounded energy.
C20_Witness ==
    /\ sim_local.op = "locals"
    /\ sim_config.duration_hours = 2
    /\ sim_result.total_energy_kwh # 2 * sim_result.hourly_power_kw
    /\ sim_result.cost_estimate_usd #
           RoundHalfEven(sim_result.total_energy_kwh * power_cost_per_kwh, 1000)

-----------------------------------------------------------------------------
(* Claims about the analyzer's scores (checked under SpecAnalyzer)         *)

\* C21: in every scored table (regions of positive consumption and price,
\* scores in hundredths of a point) the infrastructure score of a region is
\* consumption / largest consumption x 100 and its cost-efficiency score is
\* (largest price - price) / largest price x 100, each to two decimals; all
\* three scores lie in [0, 100], a region of the largest consumption scores
\* 100 for infrastructure and a region of the largest price 0 for cost.
C21_ScoresNormalized ==
    an_data.op = "scored" =>
        LET t == an_data.rows
            n == Len(t)
            max_usage == SetMax({an_stats[j].usage : j \in 1..Len(an_stats)})
            max_price == SetMax({an_stats[j].price : j \in 1..Len(an_stats)})
        IN  \A k \in 1..n :
                /\ 2 * Abs(t[k].infra * max_usage - t[k].usage * FullScore)
                       <= max_usage
                /\ 2 * Abs(t[k].cost * max_price
                           - (max_price - t[k].price) * FullScore) <= max_price
                /\ t[k].infra \in 0..FullScore
                /\ t[k].cost \in 0..FullScore
                /\ t[k].overall \in 0..FullScore
                /\ t[k].usage = max_usage => t[k].infra = FullScore
                /\ t[k].price = max_price => t[k].cost = 0

\* C21 witness: three regions of consumption 3, 2, 1 and price 1, 3, 2 were
\* scored: 100 / 66.67 / 33.33 for infrastructure, 66.67 / 0 / 33.33 for cost.
C21_Witness ==
    /\ an_data.op = "scored"
    /\ Len(an_data.rows) = 3
    /\ \E a, b, c \in 1..3 :
           /\ an_data.rows[a].infra = FullScore /\ an_data.rows[a].cost = 6667
           /\ an_data.rows[b].infra = 6667 /\ an_data.rows[b].cost = 0
           /\ an_data.rows[c].infra = 3333 /\ an_data.rows[c].cost = 3333

\* C22 as stated: regions of equal overall score are ranked in the order of
\* the input table (usage_rank is the position of a row in the input).
C22_TiesKeepInputOrder ==
    an_data.op = "scored" =>
        \A a, b \in 1..Len(an_data.rows) :
            (/\ an_data.rows[a].overall = an_data.rows[b].overall
             /\ an_data.rows[a].usage_rank < an_data.rows[b].usage_rank)
                => an_data.rows[a].rank < an_data.rows[b].rank

-----------------------------------------------------------------------------
(* Claims about the impact report (checked under SpecImpact)               *)

\* The last call was made for a region of regional_data with a positive
\* consumption and capacity.
ImpactComputable ==
    /\ ret.op = "analyze_datacenter_impact_on"
    /\ ret.location \in DOMAIN ret.regional_data
    /\ ret.regional_data[ret.location].total_consumption_mwh > 0
    /\ ret.regional_data[ret.location].supply_capacity_mw > 0

\* C23 as stated: the impact query returns a report whose capacity
\* utilization (tenths of a percent here) is (average consumption + added
\* load) / supply capacity x 100, whose risk level is high above 90, moderate
\* above 80 up to 90 and low otherwise, and whose upgrade flag is set exactly
\* above 85; 100 MW on average, 120 MW of capacity and 15 MW of load give
\* 95.8, high and an upgrade.
C23_ImpactReportByFormula ==
    ImpactComputable =>
        LET info == ret.regional_data[ret.location]
            total == info.total_consumption_mwh
            cap == info.supply_capacity_mw
            load == ret.datacenter_power_mw
            report == ret.computed
        IN  /\ ret.outcome = "report"
            /\ 2 * Abs(report.capacity_utilization_percent * 219 * cap
                       - (total + HoursPerYear * load) * 25) <= 219 * cap
            /\ (report.grid_stability_risk = "high")
                   <=> UtilizationAbove(total, cap, load, 90)
            /\ (report.grid_stability_risk = "moderate")
                   <=> (/\ UtilizationAbove(total, cap, load, 80)
                        /\ ~UtilizationAbove(total, cap, load, 90))
            /\ (report.grid_stability_risk = "low")
                   <=> ~UtilizationAbove(total, cap, load, 80)
            /\ report.infrastructure_upgrade_needed
                   <=> UtilizationAbove(total, cap, load, 85)
            /\ (total = 876000 /\ cap = 120 /\ load = 15) =>
                   /\ report.capacity_utilization_percent = 958
                   /\ report.grid_stability_risk = "high"
                   /\ report.infrastructure_upgrade_needed

\* C30: in the values that analyze_datacenter_impact computes for a report,
\* the risk level high comes with the upgrade flag set and the risk level low
\* with the flag unset.
C30_RiskAndUpgradeConsistent ==
    (ImpactComputable /\ ret.computed # NoCall) =>
        /\ ret.computed.grid_stability_risk = "high"
               => ret.computed.infrastructure_upgrade_needed
        /\ ret.computed.grid_stability_risk = "low"
               => ~ret.computed.infrastructure_upgrade_needed

\* C30 witness: the values computed at exactly 85 percent utilization (100 MW
\* on average, 200 MW of capacity, 70 MW added): moderate risk, flag unset.
C30_Witness ==
    /\ ImpactComputable
    /\ ret.computed # NoCall
    /\ ret.computed.capacity_utilization_percent = 850
    /\ ret.computed.grid_stability_risk = "moderate"
    /\ ~ret.computed.infrastructure_upgrade_needed

-----------------------------------------------------------------------------
(* Claims about the snapshot and the candidates (checked under SpecService) *)

\* C24 as stated: in every snapshot returned by get_regional_power_consumption
\* total_regions is the number of entries of regions.
C24_TotalRegionsCountsEntries ==
    ret.op = "get_regional_power_consumption" =>
        ret.value.total_regions = Cardinality(DOMAIN ret.value.regions)

\* The regions of the snapshot that get_regional_power_consumption returns
\* on the instance as it is now.
SnapshotRegionsNow ==
    DOMAIN get_regional_power_consumption(Self, 2024, now).value.regions

\* C25 as stated: every region returned as a candidate by
\* find_optimal_datacenter_locations is a region of the snapshot of the same
\* instance.
C25_CandidatesAreSnapshotRegions ==
    ret.op = "find_optimal_datacenter_locations" =>
        \A k \in 1..Len(ret.value) : ret.value[k].region \in SnapshotRegionsNow

-----------------------------------------------------------------------------
(* Claims about the power curve (checked under SpecSim)                    *)

\* The actual power of the simulated configuration at another utilization.
PowerAt(u) == actual_power_watts([sim_config EXCEPT !.utilization = u])

\* C26 as stated: for each GPU, workload and TDP the actual power over the
\* utilizations in [0, 100] is non-decreasing on [50, 95], largest at 95 and
\* strictly lower than at 95 below 50 and above 95.
C26_PowerPeaksAt95 ==
    (sim_local.op = "locals" /\ UtilizationInRange(sim_config)) =>
        LET u == sim_config.utilization
            p == sim_local.actual_power_watts
        IN  /\ p <= PowerAt(95)
            /\ (u < 50 \/ u > 95) => p < PowerAt(95)
            /\ (50 <= u /\ u <= 95) =>
                   \A u2 \in u..95 : p <= PowerAt(u2)

\* C27: when the loaded table is one that the analyzer's
\* find_optimal_datacenter_locations produced, the i-th candidate returned
\* from it by the service carries ranking = i, for every top_n >= 0 and also
\* among regions of equal score.
C27_RankingIsPosition ==
    (/\ ret.op = "find_optimal_datacenter_locations"
     /\ ret.top_n >= 0
     /\ comprehensive_data.scored
     /\ ~Empty(comprehensive_data))
        => /\ ~ret.fallback
           /\ Len(ret.value) = Min2(ret.top_n, Len(comprehensive_data.rows))
           /\ \A i \in 1..Len(ret.value) : ret.value[i].ranking = i

\* C27 witness: three regions were returned, the first two with equal
\* scores, and the region ranked first is not the one of the largest usage.
C27_Witness ==
    /\ ret.op = "find_optimal_datacenter_locations"
    /\ ~ret.fallback
    /\ Len(ret.value) = 3
    /\ ret.value[1].overall_efficiency_score
           = ret.value[2].overall_efficiency_score
    /\ ret.value[1].ranking = 1
    /\ ret.value[3].ranking = 3
    /\ comprehensive_data.rows[1].usage_rank # 1

-----------------------------------------------------------------------------
(* Claims about the cache dicts (checked under SpecCache)                  *)

\* C28: on one instance, through any sequence of calls, cached_data and
\* cache_expiry hold the same keys; whenever an entry is stored its expiry is
\* exactly one hour after the time of storing; and a call that reads one
\* cache key leaves the value and the expiry of every other key as they were.
C28_CacheDictsInStep ==
    [][/\ \A k \in CacheKeys :
              /\ (cached_data[k] = Missing) <=> (cache_expiry[k] = None)
              /\ (cached_data'[k] = Missing) <=> (cache_expiry'[k] = None)
       /\ \A k \in CacheKeys :
              (Rewritten(k) /\ cached_data'[k] # Missing)
                  => cache_expiry'[k] = Some(now + CacheHours * TicksPerHour)
       /\ \A k, other \in CacheKeys :
              (ReadOf(ret', k) /\ now' = now /\ other # k)
                  => ~Rewritten(other)]_vars

\* C28 witness: the snapshot of 2023 was stored at time 0, that of 2024 at
\* time 1 and the plant data at time 2; each expires one hour after its own
\* storing.
C28_Witness ==
    /\ now = 2
    /\ ret.op = "get_power_plant_data"
    /\ cached_data["regional_consumption_2023"] # Missing
    /\ cached_data["regional_consumption_2023"].last_updated = 0
    /\ cache_expiry["regional_consumption_2023"] = Some(1)
    /\ cached_data["regional_consumption_2024"] # Missing
    /\ cached_data["regional_consumption_2024"].last_updated = 1
    /\ cache_expiry["regional_consumption_2024"] = Some(2)
    /\ cached_data["power_plants"] # Missing
    /\ cache_expiry["power_plants"] = Some(3)

-----------------------------------------------------------------------------
(* C29: loading the three analysis tables                                  *)

\* Reading the file raises.
Raises(f) == files[f].exists /\ ~files[f].readable

\* What a load that does not raise leaves in the attribute of file f: the
\* content of the file, or for an absent file the value the attribute had,
\* an empty table on the first load.
LoadedValue(f) ==
    IF files[f].exists THEN files[f].content
    ELSE IF loader.before[f] = Unset THEN EmptyTable
    ELSE loader.before[f]

\* The files before number n have been read into their attributes, and the
\* attributes of file n and of those after it are as they were before the load.
ReadUpTo(n) ==
    \A i \in 1..Len(FileNames) :
        LET f == FileNames[i]
        IN  IF i < n
            THEN Attributes[f] = IF files[f].exists THEN files[f].content
                                 ELSE loader.before[f]
            ELSE Attributes[f] = loader.before[f]

\* C29: _load_analysis_results reads the comprehensive, the cost-gap and the
\* monthly file in this order. When reading one of them raises, the tables
\* read before it had been loaded and all three tables end up empty. When
\* none raises, each existing file's table holds its content and the table of
\* an absent file is empty on the first load, the other tables keeping their
\* contents. After the call all three attributes exist.
C29_LoadOrderAndReset ==
    /\ loader.pc = "comprehensive" => ReadUpTo(1)
    /\ loader.pc = "cost_gap" => ReadUpTo(2) /\ ~Raises("comprehensive")
    /\ loader.pc = "monthly" =>
           ReadUpTo(3) /\ ~Raises("comprehensive") /\ ~Raises("cost_gap")
    /\ loader.pc = "except" =>
           \E n \in 1..Len(FileNames) :
               /\ Raises(FileNames[n])
               /\ \A i \in 1..(n - 1) : ~Raises(FileNames[i])
               /\ ReadUpTo(n)
    /\ loader.pc \in {"loaded", "ready"} =>
           /\ \A f \in DOMAIN files : Attributes[f] # Unset
           /\ IF \E f \in DOMAIN files : Raises(f)
              THEN \A f \in DOMAIN files : Attributes[f] = EmptyTable
              ELSE \A f \in DOMAIN files : Attributes[f] = LoadedValue(f)

\* The load has ended with the comprehensive file read and the reading of the
\* monthly file raising: all three tables are empty.
C29_Witness ==
    /\ loader.pc = "loaded"
    /\ files["comprehensive"].exists
    /\ files["comprehensive"].readable
    /\ ~Raises("cost_gap")
    /\ Raises("monthly")
    /\ comprehensive_data = EmptyTable
    /\ cost_gap_data = EmptyTable
    /\ monthly_data = EmptyTable

=============================================================================
